---- MODULE Spec2Model ----
(***************************************************************************)
(* Model of the prefer crate's value tree (value.rs), error enrichment     *)
(* (error.rs), type-directed extraction (FromValue), visitor dispatch      *)
(* (visitor.rs), derived struct extraction (prefer_derive) and the         *)
(* Config::get / Config::visit_key entry points (config.rs).               *)
(*                                                                         *)
(* Representation                                                          *)
(*   i64 / u64   four base-2^16 limbs <<l3, l2, l1, l0>>, most significant *)
(*               first; l3 is signed for i64 (-2^15 .. 2^15-1) and         *)
(*               unsigned for u64 (0 .. 2^16-1); the other limbs are       *)
(*               0 .. 2^16-1.  The value is l3*2^48 + l2*2^32 + l1*2^16+l0.*)
(*   String      a TLA+ string; a Config key, which the code splits on     *)
(*               '.', is a sequence of one-character strings.              *)
(*   f64         a decimal: sign, digits and power of ten, or an infinity  *)
(*               or a NaN.                                                 *)
(*   HashMap     a sequence of entries with pairwise distinct keys; the    *)
(*               order of the sequence is the iteration order of that      *)
(*               map instance.                                             *)
(*   Result      [ok |-> TRUE, val |-> v] or [ok |-> FALSE, err |-> e].    *)
(***************************************************************************)
EXTENDS Integers, Sequences, FiniteSets, TLC

VARIABLES
    target_pointer_width,   \* build target: width of usize / isize in bits
    data,                   \* the ConfigValue under extraction (Config.data)
    op,                     \* the operation last applied
    arg,                    \* its argument (target type, visitor, key, ...)
    calls,                  \* visitor methods, or change handlers, invoked by
                            \* the last operation
    prev,                   \* what the last operation started from
    result,                 \* the Result the last operation returned
    sources,                \* LayeredSource.sources, in the order added
    emitter,                \* Config.emitter: None, or Some of its handlers map
    sets,                   \* how many times Config::set has been called
    seq_access,             \* a SeqAccess: [arr |-> slice, index |-> cursor]
    nexts                   \* the next_element calls made on it, in order:
                            \* [T |-> target type, result |-> what it returned]

vars ==
    <<target_pointer_width, data, op, arg, calls, prev, result, sources,
      emitter, sets, seq_access, nexts>>

\* the state of the objects an operation of another component leaves alone
layered == <<sources>>

events == <<emitter>>

cursor == <<seq_access, nexts>>

Limb == 2 ^ 16

Ok(v) == [ok |-> TRUE, val |-> v]

Err(e) == [ok |-> FALSE, err |-> e]

None == [some |-> FALSE]

Some(v) == [some |-> TRUE, v |-> v]

(***************************************************************************)
(* error.rs                                                                *)
(***************************************************************************)
FileNotFound(name) == [kind |-> "FileNotFound", f0 |-> name]

KeyNotFound(key) == [kind |-> "KeyNotFound", f0 |-> key]

ConversionError(key, type_name, source) ==
    [kind |-> "ConversionError", key |-> key, type_name |-> type_name,
     source |-> source]

\* impl Display for Error (the #[error("...")] texts)
Display(e) ==
    CASE e.kind = "FileNotFound" ->
            "Configuration file '" \o e.f0 \o "' not found in any search path"
      [] e.kind = "KeyNotFound" ->
            "Configuration key '" \o e.f0 \o "' not found"
      [] e.kind = "ConversionError" ->
            "Failed to convert value at '" \o e.key \o "' to type "
            \o e.type_name \o ": " \o e.source

with_key_keeps_key(e, key) == e

with_key(e, key) ==
    IF e.kind = "ConversionError"
    THEN ConversionError(key, e.type_name, e.source)
    ELSE e

\* Result::map_err(|e| e.with_key(key))
map_err_with_key(r, key) == IF r.ok THEN r ELSE Err(with_key(r.err, key))

(***************************************************************************)
(* 64-bit integers as limbs                                                *)
(***************************************************************************)
RECURSIVE LimbsLess(_, _, _)
LimbsLess(a, b, i) ==
    IF i > 4 THEN FALSE
    ELSE IF a[i] # b[i] THEN a[i] < b[i]
    ELSE LimbsLess(a, b, i + 1)

IntLe(a, b) == a = b \/ LimbsLess(a, b, 1)

\* the i64 holding a small number n, -2^31 < n < 2^31 (two's complement)
I64(n) ==
    IF n >= 0 THEN <<0, 0, n \div Limb, n % Limb>>
    ELSE <<-1, Limb - 1, (n \div Limb) % Limb, n % Limb>>

ZERO == <<0, 0, 0, 0>>

I8_MIN == I64(-128)

I8_MAX == I64(127)

I16_MIN == I64(-32768)

I16_MAX == I64(32767)

I32_MIN == <<-1, Limb - 1, Limb \div 2, 0>>

I32_MAX == <<0, 0, (Limb \div 2) - 1, Limb - 1>>

I64_MIN == <<-(Limb \div 2), 0, 0, 0>>

I64_MAX == <<(Limb \div 2) - 1, Limb - 1, Limb - 1, Limb - 1>>

U8_MAX == I64(255)

U16_MAX == I64(65535)

U32_MAX == <<0, 0, Limb - 1, Limb - 1>>

U64_MAX == <<Limb - 1, Limb - 1, Limb - 1, Limb - 1>>

\* usize::MAX, isize::MIN, isize::MAX of the build target
USIZE_MAX ==
    CASE target_pointer_width = 16 -> U16_MAX
      [] target_pointer_width = 32 -> U32_MAX
      [] OTHER -> U64_MAX

ISIZE_MIN ==
    CASE target_pointer_width = 16 -> I16_MIN
      [] target_pointer_width = 32 -> I32_MIN
      [] OTHER -> I64_MIN

ISIZE_MAX ==
    CASE target_pointer_width = 16 -> I16_MAX
      [] target_pointer_width = 32 -> I32_MAX
      [] OTHER -> I64_MAX

\* `n as u64`: reinterpret the 64 bits of an i64 as unsigned
as_u64_cast(n) == IF n[1] < 0 THEN <<n[1] + Limb, n[2], n[3], n[4]>> ELSE n

\* 2^64 - u for an unsigned u # 0: complement every limb and add one
RECURSIVE AddOne(_, _)
AddOne(u, i) ==
    IF i = 0 THEN u
    ELSE IF u[i] = Limb - 1 THEN AddOne([u EXCEPT ![i] = 0], i - 1)
    ELSE [u EXCEPT ![i] = u[i] + 1]

Negate(u) ==
    AddOne(<<Limb - 1 - u[1], Limb - 1 - u[2], Limb - 1 - u[3], Limb - 1 - u[4]>>, 4)

\* long division of an unsigned number by ten: <<quotient, remainder>>
RECURSIVE DivMod10(_, _, _, _)
DivMod10(u, i, q, r) ==
    IF i > 4 THEN <<q, r>>
    ELSE DivMod10(u, i + 1, [q EXCEPT ![i] = (r * Limb + u[i]) \div 10],
                  (r * Limb + u[i]) % 10)

RECURSIVE Digits(_)
Digits(u) ==
    IF u = ZERO THEN ""
    ELSE Digits(DivMod10(u, 1, ZERO, 0)[1]) \o ToString(DivMod10(u, 1, ZERO, 0)[2])

\* impl Display for i64 (the `{}` of format!)
FormatI64(n) ==
    IF n = ZERO THEN "0"
    ELSE IF n[1] < 0 THEN "-" \o Digits(Negate(as_u64_cast(n)))
    ELSE Digits(n)

\* impl Display for usize (the `{i}` of format!("[{i}]"))
FormatIndex(i) == ToString(i)

(***************************************************************************)
(* value.rs: ConfigValue                                                   *)
(***************************************************************************)
Null == [kind |-> "Null"]

Bool(b) == [kind |-> "Bool", b |-> b]

Integer(n) == [kind |-> "Integer", n |-> n]

Float(f) == [kind |-> "Float", f |-> f]

String(s) == [kind |-> "String", s |-> s]

Array(items) == [kind |-> "Array", items |-> items]

\* entries: a sequence of [k |-> key, v |-> node] with distinct keys
Object(entries) == [kind |-> "Object", entries |-> entries]

is_null(v) == v.kind = "Null"

as_bool(v) == IF v.kind = "Bool" THEN Some(v.b) ELSE None

as_i64(v) == IF v.kind = "Integer" THEN Some(v.n) ELSE None

as_u64_unguarded(v) ==
    IF v.kind = "Integer" THEN Some(as_u64_cast(v.n)) ELSE None

as_u64(v) ==
    IF v.kind = "Integer" /\ IntLe(ZERO, v.n) THEN Some(as_u64_cast(v.n))
    ELSE None

as_str(v) == IF v.kind = "String" THEN Some(v.s) ELSE None

as_array(v) == IF v.kind = "Array" THEN Some(v.items) ELSE None

as_object(v) == IF v.kind = "Object" THEN Some(v.entries) ELSE None

\* HashMap::get
map_get(entries, key) ==
    IF \E i \in 1..Len(entries) : entries[i].k = key
    THEN Some(entries[CHOOSE i \in 1..Len(entries) : entries[i].k = key].v)
    ELSE None

get(v, key) == IF v.kind = "Object" THEN map_get(v.entries, key) ELSE None

type_name(v) ==
    CASE v.kind = "Null" -> "null"
      [] v.kind = "Bool" -> "boolean"
      [] v.kind = "Integer" -> "integer"
      [] v.kind = "Float" -> "float"
      [] v.kind = "String" -> "string"
      [] v.kind = "Array" -> "array"
      [] v.kind = "Object" -> "object"

(***************************************************************************)
(* value.rs: FromValue for the primitive types                             *)
(***************************************************************************)
\* Option::ok_or_else
ok_or_else(o, e) == IF o.some THEN Ok(o.v) ELSE Err(e)

\* iN::try_from(i64).ok(), with [lo, hi] the range of iN
try_from_i64(n, lo, hi) == IF IntLe(lo, n) /\ IntLe(n, hi) THEN Some(n) ELSE None

try_from_u64_exclusive(n, hi) == IF LimbsLess(n, hi, 1) THEN Some(n) ELSE None

\* uN::try_from(u64).ok(), with hi = uN::MAX
try_from_u64(n, hi) == IF IntLe(n, hi) THEN Some(n) ELSE None

\* Option::and_then with one of the two conversions above
and_then_i64(o, lo, hi) == IF o.some THEN try_from_i64(o.v, lo, hi) ELSE None

and_then_u64(o, hi) == IF o.some THEN try_from_u64(o.v, hi) ELSE None

bool_from_value(v) ==
    ok_or_else(as_bool(v),
        ConversionError("", "bool", "expected boolean, found " \o type_name(v)))

i8_from_value(v) ==
    ok_or_else(and_then_i64(as_i64(v), I8_MIN, I8_MAX),
        ConversionError("", "i8", "expected i8, found " \o type_name(v)))

i16_from_value(v) ==
    ok_or_else(and_then_i64(as_i64(v), I16_MIN, I16_MAX),
        ConversionError("", "i16", "expected i16, found " \o type_name(v)))

i32_from_value(v) ==
    ok_or_else(and_then_i64(as_i64(v), I32_MIN, I32_MAX),
        ConversionError("", "i32", "expected i32, found " \o type_name(v)))

i64_from_value(v) ==
    ok_or_else(as_i64(v),
        ConversionError("", "i64", "expected i64, found " \o type_name(v)))

u8_from_value(v) ==
    ok_or_else(and_then_u64(as_u64(v), U8_MAX),
        ConversionError("", "u8", "expected u8, found " \o type_name(v)))

u16_from_value(v) ==
    ok_or_else(and_then_u64(as_u64(v), U16_MAX),
        ConversionError("", "u16", "expected u16, found " \o type_name(v)))

u32_from_value(v) ==
    ok_or_else(and_then_u64(as_u64(v), U32_MAX),
        ConversionError("", "u32", "expected u32, found " \o type_name(v)))

u64_from_value(v) ==
    ok_or_else(as_u64(v),
        ConversionError("", "u64", "expected u64, found " \o type_name(v)))

usize_from_value(v) ==
    IF ~as_i64(v).some
    THEN Err(ConversionError("", "usize",
                 "expected integer, found " \o type_name(v)))
    ELSE IF try_from_i64(as_i64(v).v, ZERO, USIZE_MAX).some
    THEN Ok(as_i64(v).v)
    ELSE Err(ConversionError("", "usize",
                 "value " \o FormatI64(as_i64(v).v) \o " out of range for usize"))

isize_from_value(v) ==
    IF ~as_i64(v).some
    THEN Err(ConversionError("", "isize",
                 "expected integer, found " \o type_name(v)))
    ELSE IF try_from_i64(as_i64(v).v, ISIZE_MIN, ISIZE_MAX).some
    THEN Ok(as_i64(v).v)
    ELSE Err(ConversionError("", "isize",
                 "value " \o FormatI64(as_i64(v).v) \o " out of range for isize"))

String_from_value(v) ==
    ok_or_else(as_str(v),
        ConversionError("", "String", "expected string, found " \o type_name(v)))

(***************************************************************************)
(* Target types.  A type is a record [t |-> name, ...]:                    *)
(*   [t |-> "bool"], "i8" .. "isize", "f64", "String", "ConfigValue"       *)
(*   [t |-> "Vec", elem |-> T]      [t |-> "Option", elem |-> T]           *)
(*   [t |-> "HashMap", key |-> K, val |-> V]                               *)
(*   [t |-> "FailingElement"]       a hand-written FromValue that fails    *)
(*   [t |-> "Struct", name |-> n, fields |-> <<field, ...>>]   derived     *)
(*   [t |-> "Enum", ...]            derived, see derive_enum below         *)
(* A field is [ident, ty, metas, rename, default, skip, flatten, required] *)
(* with rename / default Options as parsed by parse_field_attrs from the   *)
(* metas written on it.                                                    *)
(***************************************************************************)
Ty(name) == [t |-> name]

VecOf(T) == [t |-> "Vec", elem |-> T]

OptionOf(T) == [t |-> "Option", elem |-> T]

HashMapOf(K, V) == [t |-> "HashMap", key |-> K, val |-> V]

StructOf(name, fields) == [t |-> "Struct", name |-> name, fields |-> fields]

\* the nested metas of #[prefer(...)], in the order written
Flag(path) == [path |-> path]

Rename(name) == [path |-> "rename", name |-> name]

DefaultLiteral(chars) == [path |-> "default", lit |-> chars]

\* FieldAttrs::default()
FieldAttrs == [rename |-> None, default |-> None, skip |-> FALSE,
               flatten |-> FALSE, required |-> FALSE]

\* the closure parse_nested_meta runs on one meta
parse_meta(field_attrs, meta) ==
    CASE meta.path = "rename" -> [field_attrs EXCEPT !.rename = Some(meta.name)]
      [] meta.path = "default" ->
            IF "lit" \in DOMAIN meta
            THEN [field_attrs EXCEPT
                    !.default = Some([kind |-> "Literal", lit |-> meta.lit])]
            ELSE [field_attrs EXCEPT !.default = Some([kind |-> "Default"])]
      [] meta.path = "skip" -> [field_attrs EXCEPT !.skip = TRUE]
      [] meta.path = "flatten" -> [field_attrs EXCEPT !.flatten = TRUE]
      [] meta.path = "required" -> [field_attrs EXCEPT !.required = TRUE]
      [] OTHER -> field_attrs

RECURSIVE parse_nested_meta(_, _)
parse_nested_meta(metas, field_attrs) ==
    IF metas = <<>> THEN field_attrs
    ELSE parse_nested_meta(Tail(metas), parse_meta(field_attrs, metas[1]))

parse_field_attrs(metas) == parse_nested_meta(metas, FieldAttrs)

\* a field `#[prefer(metas)] ident: ty` with its parsed attributes
FieldWith(ident, ty, metas) ==
    [ident |-> ident, ty |-> ty, metas |-> metas,
     rename |-> parse_field_attrs(metas).rename,
     default |-> parse_field_attrs(metas).default,
     skip |-> parse_field_attrs(metas).skip,
     flatten |-> parse_field_attrs(metas).flatten,
     required |-> parse_field_attrs(metas).required]

\* a field without attributes
Field(ident, ty) == FieldWith(ident, ty, <<>>)

\* <T as Default>::default()
RECURSIVE Default(_)
Default(T) ==
    CASE T.t = "bool" -> FALSE
      [] T.t \in {"i8", "i16", "i32", "i64", "u8", "u16", "u32", "u64",
                  "usize", "isize"} -> ZERO
      [] T.t = "f64" -> [cls |-> "finite", neg |-> FALSE, digits |-> <<>>,
                         exp10 |-> 0]
      [] T.t = "String" -> ""
      [] T.t = "ConfigValue" -> Null
      [] T.t = "Vec" -> <<>>
      [] T.t = "Option" -> None
      [] T.t = "HashMap" -> {}
      [] T.t = "Struct" ->
            [i \in 1..Len(T.fields) |->
                [name |-> T.fields[i].ident, val |-> Default(T.fields[i].ty)]]

\* the FromValue of FailingElement in tests/coverage_tests.rs
FailingElement_from_value(v) == Err(FileNotFound("element error"))

ConfigValue_from_value(v) == Ok(v)

is_option_type(T) == T.t = "Option"

RECURSIVE FromValue(_, _)
RECURSIVE Vec_collect(_, _, _, _)
RECURSIVE HashMap_collect(_, _, _, _, _)
RECURSIVE Struct_collect(_, _, _, _, _)
RECURSIVE Tagged_collect(_, _, _, _)
RECURSIVE Untagged_attempts(_, _, _)

\* the closure of Vec<T>::from_value, applied to element i (0-based) = arr[i+1]
Vec_element_unenriched(T, i, v) == FromValue(T, v)

Vec_element(T, i, v) ==
    map_err_with_key(FromValue(T, v), "[" \o FormatIndex(i) \o "]")

\* arr.iter().enumerate().map(closure).collect::<Result<Vec<T>>>():
\* elements in index order, stopping at the first Err
Vec_collect(T, arr, i, acc) ==
    IF i >= Len(arr) THEN Ok(acc)
    ELSE IF Vec_element(T, i, arr[i + 1]).ok
    THEN Vec_collect(T, arr, i + 1, Append(acc, Vec_element(T, i, arr[i + 1]).val))
    ELSE Vec_element(T, i, arr[i + 1])

Vec_from_value(T, v) ==
    IF ~as_array(v).some
    THEN Err(ConversionError("", "Vec", "expected array, found " \o type_name(v)))
    ELSE Vec_collect(T, as_array(v).v, 0, <<>>)

Option_some_to_none(T, v) ==
    IF is_null(v) \/ ~FromValue(T, v).ok THEN Ok(None)
    ELSE Ok(Some(FromValue(T, v).val))

Option_from_value(T, v) ==
    IF is_null(v) THEN Ok(None)
    ELSE IF FromValue(T, v).ok THEN Ok(Some(FromValue(T, v).val))
    ELSE FromValue(T, v)

\* the closure of HashMap<K, V>::from_value applied to the entry (k, v):
\* Ok(<<key, val>>) or the error of the key, else of the value
HashMap_entry_unenriched(K, V, k, v) ==
    IF ~FromValue(K, String(k)).ok THEN FromValue(K, String(k))
    ELSE IF ~FromValue(V, v).ok THEN FromValue(V, v)
    ELSE Ok(<<FromValue(K, String(k)).val, FromValue(V, v).val>>)

HashMap_entry(K, V, k, v) ==
    IF ~FromValue(K, String(k)).ok THEN FromValue(K, String(k))
    ELSE IF ~FromValue(V, v).ok THEN map_err_with_key(FromValue(V, v), k)
    ELSE Ok(<<FromValue(K, String(k)).val, FromValue(V, v).val>>)

\* obj.iter().map(closure).collect::<Result<HashMap<K, V>>>(): entries in
\* the map's iteration order, stopping at the first Err; a later entry
\* with an equal key replaces the earlier one
HashMap_collect(K, V, entries, i, acc) ==
    IF i > Len(entries) THEN Ok(acc)
    ELSE IF HashMap_entry(K, V, entries[i].k, entries[i].v).ok
    THEN HashMap_collect(K, V, entries, i + 1,
            {e \in acc : e[1] # HashMap_entry(K, V, entries[i].k, entries[i].v).val[1]}
            \cup {HashMap_entry(K, V, entries[i].k, entries[i].v).val})
    ELSE HashMap_entry(K, V, entries[i].k, entries[i].v)

HashMap_from_value(K, V, v) ==
    IF ~as_object(v).some
    THEN Err(ConversionError("", "HashMap", "expected object, found " \o type_name(v)))
    ELSE HashMap_collect(K, V, as_object(v).v, 1, {})

(***************************************************************************)
(* f64.  A finite f64 is the decimal digits * 10^exp10 (digits without     *)
(* leading or trailing zeros, <<>> for zero).                              *)
(***************************************************************************)
RECURSIVE StripLeading(_)
StripLeading(ds) ==
    IF ds # <<>> /\ ds[1] = 0 THEN StripLeading(Tail(ds)) ELSE ds

RECURSIVE StripTrailing(_, _)
StripTrailing(ds, e) ==
    IF ds = <<>> THEN <<ds, 0>>
    ELSE IF ds[Len(ds)] = 0 THEN StripTrailing(SubSeq(ds, 1, Len(ds) - 1), e + 1)
    ELSE <<ds, e>>

Finite(neg, ds, e) ==
    [cls |-> "finite", neg |-> neg,
     digits |-> StripTrailing(StripLeading(ds), e)[1],
     exp10 |-> StripTrailing(StripLeading(ds), e)[2]]

Infinity(neg) == [cls |-> "inf", neg |-> neg, digits |-> <<>>, exp10 |-> 0]

NaN(neg) == [cls |-> "nan", neg |-> neg, digits |-> <<>>, exp10 |-> 0]

\* the decimal digits of an unsigned 64-bit number
RECURSIVE DigitSeq(_)
DigitSeq(u) ==
    IF u = ZERO THEN <<>>
    ELSE Append(DigitSeq(DivMod10(u, 1, ZERO, 0)[1]), DivMod10(u, 1, ZERO, 0)[2])

\* the number of bits of a limb
RECURSIVE BitLen(_)
BitLen(x) == IF x = 0 THEN 0 ELSE 1 + BitLen(x \div 2)

\* an unsigned 64-bit number rounded to 53 significant bits, ties to even
RoundTo53(u) ==
    IF u[1] < 32 THEN u
    ELSE LET k == BitLen(u[1]) - 5
             r == u[4] % (2 ^ k)
             down == [u EXCEPT ![4] = u[4] - r]
             up == IF down[4] + 2 ^ k = Limb
                   THEN AddOne([down EXCEPT ![4] = 0], 3)
                   ELSE [down EXCEPT ![4] = down[4] + 2 ^ k]
         IN  IF r * 2 < 2 ^ k THEN down
             ELSE IF r * 2 > 2 ^ k THEN up
             ELSE IF (u[4] \div (2 ^ k)) % 2 = 0 THEN down
             ELSE up

\* `n as f64` for an i64
i64_as_f64(n) ==
    IF n[1] < 0 THEN Finite(TRUE, DigitSeq(RoundTo53(Negate(as_u64_cast(n)))), 0)
    ELSE Finite(FALSE, DigitSeq(RoundTo53(n)), 0)

\* ConfigValue::as_f64
as_f64(v) ==
    CASE v.kind = "Float" -> Some(v.f)
      [] v.kind = "Integer" -> Some(i64_as_f64(v.n))
      [] OTHER -> None

f64_from_value(v) ==
    ok_or_else(as_f64(v),
        ConversionError("", "f64", "expected f64, found " \o type_name(v)))

\* u * 10 + d for an unsigned 64-bit u: <<the low 64 bits, the carry out>>
RECURSIVE MulAdd10(_, _, _)
MulAdd10(u, i, carry) ==
    IF i = 0 THEN <<u, carry>>
    ELSE MulAdd10([u EXCEPT ![i] = (u[i] * 10 + carry) % Limb], i - 1,
                  (u[i] * 10 + carry) \div Limb)

\* the unsigned number written by the digits ds: [ok, u]; not ok beyond 2^64-1
RECURSIVE FromDigits(_, _)
FromDigits(ds, u) ==
    IF ds = <<>> THEN Some(u)
    ELSE IF MulAdd10(u, 4, ds[1])[2] # 0 THEN None
    ELSE FromDigits(Tail(ds), MulAdd10(u, 4, ds[1])[1])

\* the two's complement i64 of -u, for 0 <= u <= 2^63
NegI64(u) ==
    IF u = ZERO THEN ZERO
    ELSE [Negate(u) EXCEPT ![1] = Negate(u)[1] - Limb]

\* the digits of the integer part of a finite f64
IntegerPart(f) ==
    IF f.exp10 >= 0 THEN f.digits \o [i \in 1..f.exp10 |-> 0]
    ELSE IF Len(f.digits) <= -f.exp10 THEN <<>>
    ELSE SubSeq(f.digits, 1, Len(f.digits) + f.exp10)

\* `f as T` for an integer type T with range [lo, hi]: truncates toward
\* zero, saturates at the bounds, NaN gives 0
f64_as_int(f, lo, hi) ==
    CASE f.cls = "nan" -> ZERO
      [] f.cls = "inf" -> IF f.neg THEN lo ELSE hi
      [] OTHER ->
            LET big == Len(f.digits) + f.exp10 > 20
                m == IF big THEN None ELSE FromDigits(IntegerPart(f), ZERO)
                maglo == IF lo = ZERO THEN ZERO ELSE Negate(as_u64_cast(lo))
            IN  IF f.neg
                THEN IF ~m.some \/ ~IntLe(m.v, maglo) THEN lo ELSE NegI64(m.v)
                ELSE IF ~m.some \/ ~IntLe(m.v, hi) THEN hi ELSE m.v

\* `n as T` for an i64 n and an integer type of the given width: the low
\* bits of n, read as signed or unsigned
i64_as_int(n, bits, signed) ==
    LET u == as_u64_cast(n)
        low == CASE bits = 8 -> <<0, 0, 0, u[4] % 256>>
                 [] bits = 16 -> <<0, 0, 0, u[4]>>
                 [] bits = 32 -> <<0, 0, u[3], u[4]>>
                 [] OTHER -> u
        top == CASE bits = 8 -> low[4] >= 128
                 [] bits = 16 -> low[4] >= Limb \div 2
                 [] bits = 32 -> low[3] >= Limb \div 2
                 [] OTHER -> low[1] >= Limb \div 2
    IN  IF ~(signed /\ top) THEN low
        ELSE CASE bits = 8 -> <<-1, Limb - 1, Limb - 1, Limb - 256 + low[4]>>
               [] bits = 16 -> <<-1, Limb - 1, Limb - 1, low[4]>>
               [] bits = 32 -> <<-1, Limb - 1, low[3], low[4]>>
               [] OTHER -> [low EXCEPT ![1] = low[1] - Limb]

(***************************************************************************)
(* str::parse.  A text is a sequence of one-character strings.             *)
(***************************************************************************)
\* the String holding the characters
RECURSIVE to_string(_)
to_string(chars) ==
    IF chars = <<>> THEN "" ELSE chars[1] \o to_string(Tail(chars))

IsDigit(c) == c \in {"0", "1", "2", "3", "4", "5", "6", "7", "8", "9"}

DigitVal(c) ==
    CASE c = "0" -> 0 [] c = "1" -> 1 [] c = "2" -> 2 [] c = "3" -> 3
      [] c = "4" -> 4 [] c = "5" -> 5 [] c = "6" -> 6 [] c = "7" -> 7
      [] c = "8" -> 8 [] c = "9" -> 9

DigitVals(chars) == [i \in 1..Len(chars) |-> DigitVal(chars[i])]

AllDigits(chars) == \A i \in 1..Len(chars) : IsDigit(chars[i])

\* the text without its leading sign
Unsigned(chars) ==
    IF chars # <<>> /\ chars[1] \in {"+", "-"} THEN Tail(chars) ELSE chars

IsNegative(chars) == chars # <<>> /\ chars[1] = "-"

\* str::parse for an integer type with range [lo, hi]: an optional '+', or
\* '-' for a signed type, then at least one digit, within the range
parse_int(chars, lo, hi) ==
    LET signed == lo # ZERO
        ds == IF signed \/ ~IsNegative(chars) THEN Unsigned(chars) ELSE chars
        m == FromDigits(DigitVals(ds), ZERO)
    IN  IF ds = <<>> \/ ~AllDigits(ds) THEN None
        ELSE IF ~m.some THEN None
        ELSE IF IsNegative(chars)
        THEN IF IntLe(m.v, Negate(as_u64_cast(lo))) THEN Some(NegI64(m.v)) ELSE None
        ELSE IF IntLe(m.v, hi) THEN Some(m.v) ELSE None

\* literal.parse::<i64>()
parse_i64(chars) == parse_int(chars, I64_MIN, I64_MAX)

\* str::parse::<bool>
parse_bool(chars) ==
    IF chars = <<"t", "r", "u", "e">> THEN Some(TRUE)
    ELSE IF chars = <<"f", "a", "l", "s", "e">> THEN Some(FALSE)
    ELSE None

\* the length of the longest prefix of digits
RECURSIVE DigitPrefix(_)
DigitPrefix(chars) ==
    IF chars # <<>> /\ IsDigit(chars[1]) THEN 1 + DigitPrefix(Tail(chars)) ELSE 0

Drop(chars, n) == SubSeq(chars, n + 1, Len(chars))

LowerCase(c) ==
    CASE c = "I" -> "i" [] c = "N" -> "n" [] c = "F" -> "f" [] c = "T" -> "t"
      [] c = "Y" -> "y" [] c = "A" -> "a" [] c = "E" -> "e" [] OTHER -> c

\* the digits of 2^64
TwoTo64 == <<1, 8, 4, 4, 6, 7, 4, 4, 0, 7, 3, 7, 0, 9, 5, 5, 1, 6, 1, 6>>

\* the f64 nearest to a decimal: a whole number below 2^64 keeps 53
\* significant bits (the rounding of other decimals is not modelled)
nearest_f64(f) ==
    IF f.exp10 >= 0 /\ Len(f.digits) + f.exp10 <= 20
            /\ FromDigits(IntegerPart(f), ZERO).some
    THEN LET u == FromDigits(IntegerPart(f), ZERO).v
         IN  IF u[1] = Limb - 1 /\ RoundTo53(u)[1] = 0
             THEN Finite(f.neg, TwoTo64, 0)
             ELSE Finite(f.neg, DigitSeq(RoundTo53(u)), 0)
    ELSE f

\* a small decimal number written by digits (the exponent of a float)
RECURSIVE SmallNumber(_, _)
SmallNumber(ds, acc) ==
    IF ds = <<>> THEN acc ELSE SmallNumber(Tail(ds), acc * 10 + ds[1])

\* literal.parse::<f64>(): [sign] (digits [. digits] | . digits) [e [sign]
\* digits], or [sign] inf | infinity | nan in any case
parse_f64(chars) ==
    LET body == Unsigned(chars)
        neg == IsNegative(chars)
        ni == DigitPrefix(body)
        afteri == Drop(body, ni)
        point == afteri # <<>> /\ afteri[1] = "."
        nf == IF point THEN DigitPrefix(Tail(afteri)) ELSE 0
        afterf == IF point THEN Drop(afteri, nf + 1) ELSE afteri
        hasexp == afterf # <<>> /\ LowerCase(afterf[1]) = "e"
        expbody == IF hasexp THEN Unsigned(Tail(afterf)) ELSE <<>>
        expval == IF hasexp /\ expbody # <<>> /\ AllDigits(expbody)
                  THEN (IF IsNegative(Tail(afterf)) THEN -1 ELSE 1)
                       * SmallNumber(DigitVals(expbody), 0)
                  ELSE 0
        lower == [i \in 1..Len(body) |-> LowerCase(body[i])]
    IN  IF lower \in {<<"i", "n", "f">>, <<"i", "n", "f", "i", "n", "i", "t", "y">>}
        THEN Some(Infinity(neg))
        ELSE IF lower = <<"n", "a", "n">> THEN Some(NaN(neg))
        ELSE IF ni + nf = 0 THEN None
        ELSE IF hasexp /\ (expbody = <<>> \/ ~AllDigits(expbody)) THEN None
        ELSE IF ~hasexp /\ afterf # <<>> THEN None
        ELSE Some(nearest_f64(Finite(neg,
                    DigitVals(SubSeq(body, 1, ni))
                    \o (IF point THEN DigitVals(SubSeq(afteri, 2, nf + 1)) ELSE <<>>),
                    expval - nf)))

(***************************************************************************)
(* prefer_derive: #[derive(FromValue)] for a struct with named fields      *)
(***************************************************************************)
key_name(f) == IF f.rename.some THEN f.rename.v ELSE f.ident

IntNames ==
    {"i8", "i16", "i32", "i64", "u8", "u16", "u32", "u64", "usize", "isize"}

\* T::MIN and T::MAX of an integer type
RangeMin(name) ==
    CASE name = "i8" -> I8_MIN
      [] name = "i16" -> I16_MIN
      [] name = "i32" -> I32_MIN
      [] name = "i64" -> I64_MIN
      [] name = "isize" -> ISIZE_MIN
      [] name \in {"u8", "u16", "u32", "u64", "usize"} -> ZERO

RangeMax(name) ==
    CASE name = "i8" -> I8_MAX
      [] name = "i16" -> I16_MAX
      [] name = "i32" -> I32_MAX
      [] name = "i64" -> I64_MAX
      [] name = "isize" -> ISIZE_MAX
      [] name = "u8" -> U8_MAX
      [] name = "u16" -> U16_MAX
      [] name = "u32" -> U32_MAX
      [] name = "u64" -> U64_MAX
      [] name = "usize" -> USIZE_MAX

\* T::BITS of an integer type
Bits(name) ==
    CASE name \in {"i8", "u8"} -> 8
      [] name \in {"i16", "u16"} -> 16
      [] name \in {"i32", "u32"} -> 32
      [] name \in {"i64", "u64"} -> 64
      [] name \in {"usize", "isize"} -> target_pointer_width

\* the tokens generate_default_expr returns for a literal; the field type
\* is not consulted
default_expr(int, float, literal) ==
    IF int.some THEN [expr |-> "i64 as _", n |-> int.v]
    ELSE IF float.some THEN [expr |-> "f64 as _", f |-> float.v]
    ELSE IF literal = <<"t", "r", "u", "e">> THEN [expr |-> "bool", b |-> TRUE]
    ELSE IF literal = <<"f", "a", "l", "s", "e">> THEN [expr |-> "bool", b |-> FALSE]
    ELSE [expr |-> "parse", text |-> literal]

generate_default_expr(ty, literal) ==
    default_expr(parse_i64(literal), parse_f64(literal), literal)

\* whether `.unwrap_or_else(|| default_expr)` type-checks for a field of
\* type ty: `as _` casts to a numeric type only, a bool literal is a bool,
\* and .parse().unwrap_or_default() needs FromStr and Default; quote! cannot
\* write an f64 that is not finite
default_expr_compiles(ty, e) ==
    CASE e.expr = "i64 as _" -> ty.t \in IntNames \cup {"f64"}
      [] e.expr = "f64 as _" ->
            e.f.cls = "finite" /\ ty.t \in IntNames \cup {"f64"}
      [] e.expr = "bool" -> ty.t = "bool"
      [] e.expr = "parse" -> ty.t \in IntNames \cup {"f64", "bool", "String"}

\* text.parse::<T>()
parse(ty, text) ==
    CASE ty.t = "String" -> Some(to_string(text))
      [] ty.t = "bool" -> parse_bool(text)
      [] ty.t = "f64" -> parse_f64(text)
      [] ty.t \in IntNames -> parse_int(text, RangeMin(ty.t), RangeMax(ty.t))

\* parsed.unwrap_or_default()
unwrap_or_default(ty, parsed) == IF parsed.some THEN parsed.v ELSE Default(ty)

\* the value of default_expr in a field of type ty
default_expr_value(ty, e) ==
    CASE e.expr = "i64 as _" ->
            IF ty.t = "f64" THEN i64_as_f64(e.n)
            ELSE i64_as_int(e.n, Bits(ty.t), RangeMin(ty.t) # ZERO)
      [] e.expr = "f64 as _" ->
            IF ty.t = "f64" THEN e.f
            ELSE f64_as_int(e.f, RangeMin(ty.t), RangeMax(ty.t))
      [] e.expr = "bool" -> e.b
      [] e.expr = "parse" -> unwrap_or_default(ty, parse(ty, e.text))

\* obj.get(key_name).map(from_value).transpose().map_err(with_key)?: the
\* entry's extraction if the key is present
present_extraction(f, obj) ==
    map_err_with_key(FromValue(f.ty, map_get(obj, key_name(f)).v), key_name(f))

\* a skip that reads the entry when there is one
skip_reads_key(f, obj) ==
    IF ~map_get(obj, key_name(f)).some THEN Ok(Default(f.ty))
    ELSE present_extraction(f, obj)

\* field: Default::default()
skip_extraction(f, obj) == Ok(Default(f.ty))

\* a flatten that looks its own key up
flatten_by_key(f, value, obj) ==
    IF ~map_get(obj, key_name(f)).some THEN Err(KeyNotFound(key_name(f)))
    ELSE present_extraction(f, obj)

\* field: from_value(value)?
flatten_extraction(f, value, obj) == FromValue(f.ty, value)

\* a required that treats an absent Option as None
required_as_option(f, obj) ==
    IF ~map_get(obj, key_name(f)).some
    THEN IF is_option_type(f.ty) THEN Ok(None) ELSE Err(KeyNotFound(key_name(f)))
    ELSE present_extraction(f, obj)

\* field: from_value(obj.get(key).ok_or_else(KeyNotFound)?).map_err(with_key)?
required_extraction(f, obj) ==
    IF ~map_get(obj, key_name(f)).some THEN Err(KeyNotFound(key_name(f)))
    ELSE present_extraction(f, obj)

\* field: ... .unwrap_or_default()
default_extraction(f, obj) ==
    IF ~map_get(obj, key_name(f)).some THEN Ok(Default(f.ty))
    ELSE present_extraction(f, obj)

\* field: ... .unwrap_or_else(|| default_expr)
literal_extraction(f, obj) ==
    IF ~map_get(obj, key_name(f)).some
    THEN Ok(default_expr_value(f.ty, generate_default_expr(f.ty, f.default.v.lit)))
    ELSE present_extraction(f, obj)

\* an Option field that turns a failing entry into None
option_lenient(f, obj) ==
    IF ~map_get(obj, key_name(f)).some THEN Ok(None)
    ELSE IF ~present_extraction(f, obj).ok THEN Ok(None)
    ELSE present_extraction(f, obj)

\* field: ... .flatten()
option_extraction(f, obj) ==
    IF ~map_get(obj, key_name(f)).some THEN Ok(None)
    ELSE present_extraction(f, obj)

\* a plain field reporting its identifier instead of its key name
plain_by_ident(f, obj) ==
    IF ~map_get(obj, key_name(f)).some THEN Err(KeyNotFound(f.ident))
    ELSE present_extraction(f, obj)

\* field: from_value(obj.get(key).ok_or_else(KeyNotFound)?).map_err(with_key)?
plain_extraction(f, obj) ==
    IF ~map_get(obj, key_name(f)).some THEN Err(KeyNotFound(key_name(f)))
    ELSE present_extraction(f, obj)

\* the extraction expression generated for one field; `value` is the node
\* given to from_value and obj its entries
field_extraction(f, value, obj) ==
    IF f.skip THEN skip_extraction(f, obj)
    ELSE IF f.flatten THEN flatten_extraction(f, value, obj)
    ELSE IF f.required THEN required_extraction(f, obj)
    ELSE IF f.default.some /\ f.default.v.kind = "Default"
    THEN default_extraction(f, obj)
    ELSE IF f.default.some /\ f.default.v.kind = "Literal"
    THEN literal_extraction(f, obj)
    ELSE IF is_option_type(f.ty) THEN option_extraction(f, obj)
    ELSE plain_extraction(f, obj)

\* whether the extraction generated for the field compiles: a default
\* expression is generated, and type-checked, only under the literal rule
field_compiles(f) ==
    (~f.skip /\ ~f.flatten /\ ~f.required
        /\ f.default.some /\ f.default.v.kind = "Literal")
    => default_expr_compiles(f.ty, generate_default_expr(f.ty, f.default.v.lit))

\* Ok(Self { field: extraction?, ... }): fields in declaration order, the
\* first failing extraction returns
Struct_field(fields, i, value, obj, acc, extraction) ==
    IF extraction.ok
    THEN Struct_collect(fields, i + 1, value, obj,
            Append(acc, [name |-> fields[i].ident, val |-> extraction.val]))
    ELSE extraction

Struct_collect(fields, i, value, obj, acc) ==
    IF i > Len(fields) THEN Ok(acc)
    ELSE Struct_field(fields, i, value, obj, acc,
                      field_extraction(fields[i], value, obj))

Struct_from_value(T, value) ==
    IF ~as_object(value).some
    THEN Err(ConversionError("", T.name, "expected object"))
    ELSE Struct_collect(T.fields, 1, value, as_object(value).v, <<>>)

(***************************************************************************)
(* prefer_derive: #[derive(FromValue)] for an enum.  An enum is            *)
(*   [t |-> "Enum", name |-> n, tag |-> Option of the tag field name,      *)
(*    variants |-> <<variant, ...>>]                                       *)
(* and a variant [ident, metas, rename, kind, fields], kind being "Named"  *)
(* (record-style), "Unnamed" (tuple-style, the fields named "0", "1", ...) *)
(* or "Unit".  The value of an enum is [variant |-> ident] with the        *)
(* fields of a Named variant under `fields` and the one value of an        *)
(* Unnamed variant under `val`.                                            *)
(***************************************************************************)
EnumOf(name, tag, variants) ==
    [t |-> "Enum", name |-> name, tag |-> tag, variants |-> variants]

VariantWith(ident, metas, kind, fields) ==
    [ident |-> ident, metas |-> metas,
     rename |-> parse_field_attrs(metas).rename, kind |-> kind, fields |-> fields]

\* a tag value that ignores the rename
tag_value_ident(variant) == variant.ident

\* attrs.rename.clone().unwrap_or_else(|| variant_name.to_string())
tag_value(variant) ==
    IF variant.rename.some THEN variant.rename.v ELSE variant.ident

\* what a field of a tagged variant is when obj has no entry under its key
tagged_absent(f) ==
    IF f.default.some /\ f.default.v.kind = "Default" THEN Ok(Default(f.ty))
    ELSE IF f.default.some /\ f.default.v.kind = "Literal"
    THEN Ok(default_expr_value(f.ty, generate_default_expr(f.ty, f.default.v.lit)))
    ELSE IF is_option_type(f.ty) THEN Ok(None)
    ELSE Err(KeyNotFound(key_name(f)))

\* the extraction generated for one field of a record-style variant of a
\* tagged enum: skip, bare default, literal default, Option, plain; flatten
\* and required are not looked at and no error is given a key
tagged_field_extraction(f, obj) ==
    IF f.skip THEN Ok(Default(f.ty))
    ELSE IF ~map_get(obj, key_name(f)).some THEN tagged_absent(f)
    ELSE FromValue(f.ty, map_get(obj, key_name(f)).v)

\* whether that extraction compiles
tagged_field_compiles(f) ==
    (~f.skip /\ f.default.some /\ f.default.v.kind = "Literal")
    => default_expr_compiles(f.ty, generate_default_expr(f.ty, f.default.v.lit))

\* Self::Variant { field: extraction?, ... }
Tagged_field(variant, i, obj, acc, extraction) ==
    IF extraction.ok
    THEN Tagged_collect(variant, i + 1, obj,
            Append(acc, [name |-> variant.fields[i].ident, val |-> extraction.val]))
    ELSE extraction

Tagged_collect(variant, i, obj, acc) ==
    IF i > Len(variant.fields)
    THEN Ok([variant |-> variant.ident, fields |-> acc])
    ELSE Tagged_field(variant, i, obj, acc,
                      tagged_field_extraction(variant.fields[i], obj))

\* Self::Variant(from_value(value)?)
tuple_construction(variant, extraction) ==
    IF extraction.ok
    THEN Ok([variant |-> variant.ident, val |-> extraction.val])
    ELSE extraction

\* the arm of one variant in `match tag`
construction(variant, value, obj) ==
    CASE variant.kind = "Named" -> Tagged_collect(variant, 1, obj, <<>>)
      [] variant.kind = "Unnamed" ->
            tuple_construction(variant, FromValue(variant.fields[1].ty, value))
      [] variant.kind = "Unit" -> Ok([variant |-> variant.ident])

\* match tag { tag_value => construction, ..., other => Err }: the first
\* arm whose tag value is the tag
match_tag(T, value, obj, tag) ==
    IF \E i \in 1..Len(T.variants) : tag_value(T.variants[i]) = tag
    THEN construction(
            T.variants[CHOOSE i \in 1..Len(T.variants) :
                /\ tag_value(T.variants[i]) = tag
                /\ \A j \in 1..(i - 1) : tag_value(T.variants[j]) # tag],
            value, obj)
    ELSE Err(ConversionError(T.tag.v, T.name, "unknown variant: " \o tag))

\* obj.get(tag_field).and_then(|v| v.as_str())
tag_of(T, obj) ==
    IF map_get(obj, T.tag.v).some THEN as_str(map_get(obj, T.tag.v).v) ELSE None

Tagged_from_value(T, value) ==
    IF ~as_object(value).some
    THEN Err(ConversionError("", T.name, "expected object"))
    ELSE IF ~tag_of(T, as_object(value).v).some
    THEN Err(ConversionError(T.tag.v, T.name, "missing or invalid tag field"))
    ELSE match_tag(T, value, as_object(value).v, tag_of(T, as_object(value).v).v)

\* whether the arm generated for a variant of a tagged enum compiles: the
\* macro rejects a tuple variant with several fields
tagged_variant_compiles(variant) ==
    CASE variant.kind = "Named" ->
            \A i \in 1..Len(variant.fields) :
                tagged_field_compiles(variant.fields[i])
      [] variant.kind = "Unnamed" -> Len(variant.fields) = 1
      [] variant.kind = "Unit" -> TRUE

\* the type Error::ConversionError declares for its source field, with the
\* std feature and without it
ConversionError_source == {"Box<dyn Error + Send + Sync>", "String"}

\* whether the from_value generated for an untagged enum compiles: it
\* writes `source: ("expected object")` and `source: ("no matching variant
\* found")`, a &'static str without .into(), where the field's type is
\* expected
untagged_impl_compiles == "&'static str" \in ConversionError_source

\* whether the attempt generated for a variant of an untagged enum compiles:
\* a field of a record-style variant that is not skipped is read by
\* `inner.get(key)?`, the ? of an Option in a function returning a Result
untagged_variant_compiles(variant) ==
    CASE variant.kind = "Named" ->
            \A i \in 1..Len(variant.fields) : variant.fields[i].skip
      [] variant.kind = "Unnamed" -> Len(variant.fields) = 1
      [] variant.kind = "Unit" -> TRUE

\* the attempt of one variant of an untagged enum: Some(result) when it
\* returns, None when control falls through to the next attempt
untagged_attempt(variant, obj) ==
    CASE variant.kind = "Named" ->
            IF map_get(obj, tag_value(variant)).some
                /\ as_object(map_get(obj, tag_value(variant)).v).some
            THEN Some(Ok([variant |-> variant.ident,
                          fields |-> [i \in 1..Len(variant.fields) |->
                                [name |-> variant.fields[i].ident,
                                 val |-> Default(variant.fields[i].ty)]]]))
            ELSE None
      [] variant.kind = "Unnamed" ->
            IF map_get(obj, tag_value(variant)).some
                /\ FromValue(variant.fields[1].ty,
                             map_get(obj, tag_value(variant)).v).ok
            THEN Some(Ok([variant |-> variant.ident,
                          val |-> FromValue(variant.fields[1].ty,
                                        map_get(obj, tag_value(variant)).v).val]))
            ELSE None
      [] variant.kind = "Unit" ->
            IF map_get(obj, tag_value(variant)).some
            THEN Some(Ok([variant |-> variant.ident]))
            ELSE None

\* the attempts in declaration order, then the generic error
Untagged_attempts(T, i, obj) ==
    IF i > Len(T.variants)
    THEN Err(ConversionError("", T.name, "no matching variant found"))
    ELSE IF untagged_attempt(T.variants[i], obj).some
    THEN untagged_attempt(T.variants[i], obj).v
    ELSE Untagged_attempts(T, i + 1, obj)

Untagged_from_value(T, value) ==
    IF ~as_object(value).some
    THEN Err(ConversionError("", T.name, "expected object"))
    ELSE Untagged_attempts(T, 1, as_object(value).v)

\* derive_enum: the tagged impl when the container has a tag attribute
Enum_from_value(T, value) ==
    IF T.tag.some THEN Tagged_from_value(T, value)
    ELSE Untagged_from_value(T, value)

\* whether the impl derived for an enum compiles
enum_compiles(T) ==
    IF T.tag.some
    THEN \A i \in 1..Len(T.variants) : tagged_variant_compiles(T.variants[i])
    ELSE /\ untagged_impl_compiles
         /\ \A i \in 1..Len(T.variants) : untagged_variant_compiles(T.variants[i])

\* whether the impls derived for T and for the types inside it compile
RECURSIVE Compiles(_)
Compiles(T) ==
    CASE T.t = "Struct" ->
            \A i \in 1..Len(T.fields) :
                field_compiles(T.fields[i]) /\ Compiles(T.fields[i].ty)
      [] T.t = "Enum" ->
            /\ enum_compiles(T)
            /\ \A i \in 1..Len(T.variants) :
                    \A j \in 1..Len(T.variants[i].fields) :
                        Compiles(T.variants[i].fields[j].ty)
      [] T.t \in {"Vec", "Option"} -> Compiles(T.elem)
      [] T.t = "HashMap" -> Compiles(T.key) /\ Compiles(T.val)
      [] OTHER -> TRUE

\* <T as FromValue>::from_value(v)
FromValue(T, v) ==
    CASE T.t = "bool" -> bool_from_value(v)
      [] T.t = "i8" -> i8_from_value(v)
      [] T.t = "i16" -> i16_from_value(v)
      [] T.t = "i32" -> i32_from_value(v)
      [] T.t = "i64" -> i64_from_value(v)
      [] T.t = "u8" -> u8_from_value(v)
      [] T.t = "u16" -> u16_from_value(v)
      [] T.t = "u32" -> u32_from_value(v)
      [] T.t = "u64" -> u64_from_value(v)
      [] T.t = "usize" -> usize_from_value(v)
      [] T.t = "isize" -> isize_from_value(v)
      [] T.t = "f64" -> f64_from_value(v)
      [] T.t = "String" -> String_from_value(v)
      [] T.t = "ConfigValue" -> ConfigValue_from_value(v)
      [] T.t = "FailingElement" -> FailingElement_from_value(v)
      [] T.t = "Vec" -> Vec_from_value(T.elem, v)
      [] T.t = "Option" -> Option_from_value(T.elem, v)
      [] T.t = "HashMap" -> HashMap_from_value(T.key, T.val, v)
      [] T.t = "Struct" -> Struct_from_value(T, v)
      [] T.t = "Enum" -> Enum_from_value(T, v)

(***************************************************************************)
(* visitor.rs.  A visitor is                                               *)
(*   [kind |-> "User", expecting |-> text, methods |-> [method -> how]]    *)
(*       how = "default"  the trait's default body                         *)
(*             "ok"       an override returning Ok of what it was given    *)
(*                        (AllTypesVisitor in tests/coverage_tests.rs)     *)
(*             "fail"     an override returning a FileNotFound error       *)
(*                        (FailingVisitor in tests/coverage_tests.rs)      *)
(*   [kind |-> "FromValueVisitor", T |-> type, expecting |-> type name]    *)
(* A visit_* operator yields [calls |-> methods entered, in order,         *)
(*                            result |-> the Result returned].             *)
(***************************************************************************)
Methods ==
    {"visit_null", "visit_bool", "visit_i64", "visit_f64", "visit_str",
     "visit_array", "visit_seq", "visit_map"}

expecting(visitor) == visitor.expecting

unexpected_generic(method) == "unexpected value"

\* what the trait's default body of a method says it met
unexpected(method) ==
    CASE method = "visit_null" -> "unexpected null"
      [] method = "visit_bool" -> "unexpected boolean"
      [] method = "visit_i64" -> "unexpected integer"
      [] method = "visit_f64" -> "unexpected float"
      [] method = "visit_str" -> "unexpected string"
      [] method = "visit_array" -> "unexpected array"
      [] method = "visit_map" -> "unexpected object"

\* the node a FromValueVisitor method rebuilds from its argument
rebuild(method, payload) ==
    CASE method = "visit_null" -> Null
      [] method = "visit_bool" -> Bool(payload)
      [] method = "visit_i64" -> Integer(payload)
      [] method = "visit_f64" -> Float(payload)
      [] method = "visit_str" -> String(payload)
      [] method = "visit_array" -> Array(payload)
      [] method = "visit_map" -> Object(payload)

\* a method other than visit_seq, called with the payload
visit_method(visitor, method, payload) ==
    [calls |-> <<method>>,
     result |->
        IF visitor.kind = "FromValueVisitor"
        THEN FromValue(visitor.T, rebuild(method, payload))
        ELSE CASE visitor.methods[method] = "ok" ->
                    Ok([method |-> method, payload |-> payload])
               [] visitor.methods[method] = "fail" ->
                    Err(FileNotFound("mock visitor error"))
               [] OTHER ->
                    Err(ConversionError("", expecting(visitor), unexpected(method)))]

visit_null(visitor) == visit_method(visitor, "visit_null", <<>>)

visit_bool(visitor, v) == visit_method(visitor, "visit_bool", v)

visit_i64(visitor, v) == visit_method(visitor, "visit_i64", v)

visit_f64(visitor, v) == visit_method(visitor, "visit_f64", v)

visit_str(visitor, v) == visit_method(visitor, "visit_str", v)

visit_array(visitor, arr) == visit_method(visitor, "visit_array", arr)

visit_map(visitor, map) == visit_method(visitor, "visit_map", map)

\* seq: [arr |-> items, index |-> cursor]; the default delegates to visit_array
visit_seq(visitor, seq) ==
    IF visitor.kind = "User" /\ visitor.methods["visit_seq"] = "ok"
    THEN [calls |-> <<"visit_seq">>,
          result |-> Ok([method |-> "visit_seq", payload |-> seq])]
    ELSE IF visitor.kind = "User" /\ visitor.methods["visit_seq"] = "fail"
    THEN [calls |-> <<"visit_seq">>,
          result |-> Err(FileNotFound("mock visitor error"))]
    ELSE [calls |-> <<"visit_seq">> \o visit_array(visitor, seq.arr).calls,
          result |-> visit_array(visitor, seq.arr).result]

SeqAccess_new(arr) == [arr |-> arr, index |-> 0]

\* seq.next_element::<T>() that steps over an element only once it has been
\* extracted
SeqAccess_next_element_retries(seq, T) ==
    IF seq.index >= Len(seq.arr) THEN [seq |-> seq, result |-> Ok(None)]
    ELSE IF FromValue(T, seq.arr[seq.index + 1]).ok
    THEN [seq |-> [seq EXCEPT !.index = seq.index + 1],
          result |-> Ok(Some(FromValue(T, seq.arr[seq.index + 1]).val))]
    ELSE [seq |-> seq, result |-> FromValue(T, seq.arr[seq.index + 1])]

\* seq.next_element::<T>(): the SeqAccess afterwards and the Result returned;
\* arr is 1-based here, so arr[index] of the code is seq.arr[seq.index + 1]
SeqAccess_next_element(seq, T) ==
    IF seq.index >= Len(seq.arr) THEN [seq |-> seq, result |-> Ok(None)]
    ELSE [seq |-> [seq EXCEPT !.index = seq.index + 1],
          result |-> IF FromValue(T, seq.arr[seq.index + 1]).ok
                     THEN Ok(Some(FromValue(T, seq.arr[seq.index + 1]).val))
                     ELSE FromValue(T, seq.arr[seq.index + 1])]

SeqAccess_as_slice(seq) == seq.arr

SeqAccess_len(seq) == Len(seq.arr)

SeqAccess_is_empty(seq) == Len(seq.arr) = 0

SeqAccess_position(seq) == seq.index

MapAccess_new(map) == map

visit_swaps_bool_and_i64(value, visitor) ==
    CASE value.kind = "Null" -> visit_null(visitor)
      [] value.kind = "Bool" -> visit_i64(visitor, value.b)
      [] value.kind = "Integer" -> visit_bool(visitor, value.n)
      [] value.kind = "Float" -> visit_f64(visitor, value.f)
      [] value.kind = "String" -> visit_str(visitor, value.s)
      [] value.kind = "Array" -> visit_array(visitor, value.items)
      [] value.kind = "Object" -> visit_map(visitor, MapAccess_new(value.entries))

\* visit(value, visitor)
visit(value, visitor) ==
    CASE value.kind = "Null" -> visit_null(visitor)
      [] value.kind = "Bool" -> visit_bool(visitor, value.b)
      [] value.kind = "Integer" -> visit_i64(visitor, value.n)
      [] value.kind = "Float" -> visit_f64(visitor, value.f)
      [] value.kind = "String" -> visit_str(visitor, value.s)
      [] value.kind = "Array" -> visit_array(visitor, value.items)
      [] value.kind = "Object" -> visit_map(visitor, MapAccess_new(value.entries))

(***************************************************************************)
(* config.rs: Config::get_value, Config::get, Config::visit_key.  A key is *)
(* a sequence of one-character strings.                                    *)
(***************************************************************************)
\* key.split('.').collect(): the text between the dots, empty pieces kept
RECURSIVE split(_, _, _)
split(chars, cur, acc) ==
    IF chars = <<>> THEN Append(acc, cur)
    ELSE IF chars[1] = "." THEN split(Tail(chars), "", Append(acc, cur))
    ELSE split(Tail(chars), cur \o chars[1], acc)

\* the loop of get_value over the remaining parts, from the node `current`
RECURSIVE get_value_from(_, _, _)
get_value_from(current, parts, key) ==
    IF parts = <<>> THEN Ok(current)
    ELSE IF current.kind = "Object"
    THEN IF map_get(current.entries, parts[1]).some
         THEN get_value_from(map_get(current.entries, parts[1]).v, Tail(parts), key)
         ELSE Err(KeyNotFound(to_string(key)))
    ELSE Err(KeyNotFound(to_string(key)))

get_value(key) == get_value_from(data, split(key, "", <<>>), key)

Config_get(T, key) ==
    IF ~get_value(key).ok THEN get_value(key)
    ELSE map_err_with_key(FromValue(T, get_value(key).val), to_string(key))

\* visit(value, visitor).map_err(|e| e.with_key(key))
visit_with_key(visited, key) ==
    [calls |-> visited.calls,
     result |-> map_err_with_key(visited.result, to_string(key))]

Config_visit_key(key, visitor) ==
    IF ~get_value(key).ok
    THEN [calls |-> <<>>, result |-> get_value(key)]
    ELSE visit_with_key(visit(get_value(key).val, visitor), key)

(***************************************************************************)
(* source.rs: LayeredSource.  A source is [name |-> its name(),            *)
(* loaded |-> the Result its load() returns].                              *)
(***************************************************************************)
SourceError(source_name, source) ==
    [kind |-> "SourceError", source_name |-> source_name, source |-> source]

\* MemorySource::with_name(data, name)
MemorySource(value, name) == [name |-> name, loaded |-> Ok(value)]

\* a source whose load() fails, as FileSource::new("/nonexistent/path.json")
FailingSource(name, e) == [name |-> name, loaded |-> Err(e)]

\* index of the entry of obj under key, 0 if there is none
entry_index(obj, key) ==
    IF \E j \in 1..Len(obj) : obj[j].k = key
    THEN CHOOSE j \in 1..Len(obj) : obj[j].k = key
    ELSE 0

RECURSIVE merge_values(_, _)
RECURSIVE merge_entries(_, _, _)

\* a merge that replaces the entry of a key both objects hold
merge_entry_shallow(base_obj, j, e) ==
    IF j = 0 THEN Append(base_obj, e)
    ELSE SubSeq(base_obj, 1, j - 1) \o <<e>> \o SubSeq(base_obj, j + 1, Len(base_obj))

\* one turn of the loop of merge_values: base_obj.get_mut(&key) is entry j
\* (merged in place) or None (insert; the new entry is put last here, its
\* place in the iteration order being unspecified)
merge_entry(base_obj, j, e) ==
    IF j = 0 THEN Append(base_obj, e)
    ELSE SubSeq(base_obj, 1, j - 1)
         \o <<[k |-> e.k, v |-> merge_values(base_obj[j].v, e.v)]>>
         \o SubSeq(base_obj, j + 1, Len(base_obj))

\* for (key, overlay_value) in overlay_obj
merge_entries(base_obj, overlay_obj, i) ==
    IF i > Len(overlay_obj) THEN base_obj
    ELSE merge_entries(
            merge_entry(base_obj, entry_index(base_obj, overlay_obj[i].k),
                        overlay_obj[i]),
            overlay_obj, i + 1)

\* the value of *base after merge_values(base, overlay)
merge_values(base, overlay) ==
    IF base.kind = "Object" /\ overlay.kind = "Object"
    THEN Object(merge_entries(base.entries, overlay.entries, 1))
    ELSE overlay

\* the loop of LayeredSource::load from source i on
RECURSIVE load_from(_, _, _)
load_from(srcs, i, merged) ==
    IF i > Len(srcs) THEN Ok(merged)
    ELSE IF ~srcs[i].loaded.ok
    THEN Err(SourceError(srcs[i].name, srcs[i].loaded.err))
    ELSE load_from(srcs, i + 1, merge_values(merged, srcs[i].loaded.val))

LayeredSource_load(srcs) == load_from(srcs, 1, Object(<<>>))

(***************************************************************************)
(* config.rs: Config::set                                                  *)
(***************************************************************************)
\* set_nested without the replacement of a value that is not an Object
RECURSIVE set_nested_keeps_value(_, _, _)
set_nested_keeps_value(current, parts, value) ==
    IF current.kind # "Object" THEN current
    ELSE IF Len(parts) = 1
    THEN Object(merge_entry_shallow(current.entries,
                    entry_index(current.entries, parts[1]),
                    [k |-> parts[1], v |-> value]))
    ELSE Object(merge_entry_shallow(current.entries,
                    entry_index(current.entries, parts[1]),
                    [k |-> parts[1],
                     v |-> set_nested_keeps_value(
                            IF map_get(current.entries, parts[1]).some
                            THEN map_get(current.entries, parts[1]).v
                            ELSE Object(<<>>),
                            Tail(parts), value)]))

\* map.insert(key, value): the entry of the key is replaced in place, a new
\* one is put last (its place in the iteration order is unspecified)
map_insert(map, key, value) ==
    IF entry_index(map, key) = 0 THEN Append(map, [k |-> key, v |-> value])
    ELSE SubSeq(map, 1, entry_index(map, key) - 1)
         \o <<[k |-> key, v |-> value]>>
         \o SubSeq(map, entry_index(map, key) + 1, Len(map))

\* the value of *current after set_nested(current, parts, value)
RECURSIVE set_nested(_, _, _)
set_nested(current, parts, value) ==
    IF Len(parts) = 1
    THEN IF current.kind = "Object"
         THEN Object(map_insert(current.entries, parts[1], value))
         ELSE Object(<<[k |-> parts[1], v |-> value]>>)
    ELSE IF current.kind # "Object"
    THEN Object(<<[k |-> parts[1],
                   v |-> set_nested(Object(<<>>), Tail(parts), value)]>>)
    ELSE Object(map_insert(current.entries, parts[1],
                    set_nested(IF map_get(current.entries, parts[1]).some
                               THEN map_get(current.entries, parts[1]).v
                               ELSE Object(<<>>),
                               Tail(parts), value)))

(***************************************************************************)
(* events.rs.  An Emitter is its handlers map, entries [k |-> event name,  *)
(* v |-> the handlers bound to it]; a handler is known by a name, and a    *)
(* call of it is [handler, key, value, previous].                          *)
(***************************************************************************)
Emitter_new == <<>>

\* self.handlers.entry(event).or_default().push(handler)
Emitter_bind(handlers, event, handler) ==
    map_insert(handlers, event,
        (IF map_get(handlers, event).some THEN map_get(handlers, event).v ELSE <<>>)
        \o <<handler>>)

\* for handler in handlers { handler(key, value, previous) }
RECURSIVE call_handlers(_, _, _, _)
call_handlers(bound, key, value, previous) ==
    IF bound = <<>> THEN <<>>
    ELSE <<[handler |-> bound[1], key |-> key, value |-> value,
            previous |-> previous]>>
         \o call_handlers(Tail(bound), key, value, previous)

\* the calls emit makes
Emitter_emit(handlers, event, key, value, previous) ==
    IF map_get(handlers, event).some
    THEN call_handlers(map_get(handlers, event).v, key, value, previous)
    ELSE <<>>

\* self.get_value(key).ok().cloned()
previous_value(key) == IF get_value(key).ok THEN Some(get_value(key).val) ELSE None

\* if let Some(emitter) = &self.emitter { emitter.emit("changed", ...) }
emit_changed(key, value, previous) ==
    IF emitter.some
    THEN Emitter_emit(emitter.v, "changed", to_string(key), value, previous)
    ELSE <<>>

\* self.emitter.get_or_insert_with(Emitter::new).bind("changed", handler)
Config_on_change(handler) ==
    Some(Emitter_bind(IF emitter.some THEN emitter.v ELSE Emitter_new,
                      "changed", handler))

(***************************************************************************)
(* Inputs                                                                  *)
(***************************************************************************)
MaxLen == 3        \* longest Array node

MaxEntries == 2    \* most entries of an Object node

MaxAttrs == 2      \* most metas written on a field

PointerWidths == {16, 32, 64}

\* every boundary of an integer type, one below and one above it
IntVals ==
    {I64(n) : n \in {-32769, -32768, -129, -128, -1, 0, 1, 42, 127, 128,
                     255, 256, 300, 32767, 32768, 65535, 65536}}
    \cup {I32_MIN, <<-1, Limb - 1, Limb \div 2, 1>>,
          <<-1, Limb - 1, (Limb \div 2) - 1, Limb - 1>>,
          I32_MAX, AddOne(I32_MAX, 4), U32_MAX, AddOne(U32_MAX, 4),
          I64_MIN, I64_MAX}

StrVals == {"", "x", "true", "42", "abc"}

FloatVals == {Finite(FALSE, <<4, 2>>, 0), Finite(FALSE, <<1, 5>>, -1)}

Leaves ==
    {Null, Bool(TRUE), Bool(FALSE)} \cup {Integer(n) : n \in IntVals}
    \cup {Float(f) : f \in FloatVals} \cup {String(s) : s \in StrVals}

ElemVals == {Integer(I64(1)), Integer(I64(300)), String("x"), Null}

SeqsOver(S, n) == UNION {[1..k -> S] : k \in 0..n}

Arrays == {Array(items) : items \in SeqsOver(ElemVals, MaxLen)}

MapKeys == {"a", "bad", "7"}

MapVals == {Integer(I64(1)), String("x")}

\* every Object over MapKeys in every iteration order
Objects ==
    {Object(entries) :
        entries \in {e \in SeqsOver([k : MapKeys, v : MapVals], MaxEntries) :
                        \A i, j \in 1..Len(e) : e[i].k = e[j].k => i = j}}

\* {"database": {"servers": [{"port": p}, ...]}}
PortVals == {Integer(I64(1)), Integer(I64(70000)), String("x")}

ServerNode(p) == Object(<<[k |-> "port", v |-> p]>>)

Document(ports) ==
    Object(<<[k |-> "database",
              v |-> Object(<<[k |-> "servers",
                              v |-> Array([i \in 1..Len(ports) |-> ServerNode(ports[i])])]>>)]>>)

Documents == {Document(ports) : ports \in SeqsOver(PortVals, MaxLen)}

Values == Leaves \cup Arrays \cup Objects \cup Documents

ScalarTypes ==
    {Ty(n) : n \in {"bool", "i8", "i16", "i32", "i64", "u8", "u16", "u32",
                    "u64", "usize", "isize", "String"}}

Server == StructOf("Server", <<Field("port", Ty("u16"))>>)

Database == StructOf("Database", <<Field("servers", VecOf(Server))>>)

AppConfig == StructOf("AppConfig", <<Field("database", Database)>>)

Types ==
    ScalarTypes
    \cup {Ty("ConfigValue"), Ty("FailingElement"), Server, Database, AppConfig}
    \cup {VecOf(T) : T \in {Ty("i32"), Ty("u8"), Ty("String"),
                            Ty("FailingElement"), Server}}
    \cup {OptionOf(T) : T \in {Ty("i32"), Ty("bool"), Ty("String"),
                               Ty("FailingElement"), VecOf(Ty("i32"))}}
    \cup {HashMapOf(K, V) : K \in {Ty("String"), Ty("i32")},
                            V \in {Ty("i32"), Ty("String"), Ty("FailingElement")}}

Expectings == {"nothing", "a port number (0-65535)"}

\* visitors overriding no method, one method, or every method
Visitors ==
    {[kind |-> "User", expecting |-> e,
      methods |-> [m \in Methods |-> IF m \in S THEN how ELSE "default"]] :
        e \in Expectings, how \in {"ok", "fail"},
        S \in {{}, Methods} \cup {{m} : m \in Methods}}
    \cup {[kind |-> "FromValueVisitor", T |-> T, expecting |-> T.t] :
            T \in {Ty("i32"), Ty("bool")}}

KeyDatabase == <<"d", "a", "t", "a", "b", "a", "s", "e">>

KeyServers == <<"s", "e", "r", "v", "e", "r", "s">>

ConfigKeys ==
    {<<"a">>, <<"b", "a", "d">>, KeyDatabase, KeyDatabase \o <<".">> \o KeyServers,
     <<"a", ".", "b">>, <<>>}

ConfigTypes ==
    {Ty("i32"), Ty("String"), Ty("FailingElement"), Database, VecOf(Server)}

ConfigVisitors == {v \in Visitors : v.expecting # "nothing"}

EnrichKeys == {"my.key", "[7]"}

\* the attributes written on a field: every sequence of up to MaxAttrs
\* distinct metas
Literal8080 == <<"8", "0", "8", "0">>

Metas ==
    {Flag("skip"), Flag("flatten"), Flag("required"), Flag("default"),
     DefaultLiteral(Literal8080), Rename("p")}

MetaSeqs ==
    {m \in SeqsOver(Metas, MaxAttrs) : \A i, j \in 1..Len(m) : m[i] = m[j] => i = j}

B == StructOf("B", <<Field("x", Ty("i32")), Field("y", Ty("i32"))>>)

A == StructOf("A", <<FieldWith("b", B, <<Flag("flatten")>>)>>)

Host == StructOf("Host", <<Field("host", Ty("String"))>>)

FieldTypes == {Ty("u16"), OptionOf(Ty("u16")), Ty("String"), B}

AttrStructs ==
    {StructOf("S", <<FieldWith("port", ty, metas)>>) :
        ty \in FieldTypes, metas \in MetaSeqs}

Literals ==
    {Literal8080, <<"7", "0", "0", "0", "0">>, <<"-", "1">>, <<"1", ".", "5">>,
     <<"t", "r", "u", "e">>, <<"p", "o", "s", "t", "g", "r", "e", "s">>, <<>>,
     <<"i", "n", "f">>,
     <<"9", "2", "2", "3", "3", "7", "2", "0", "3", "6", "8", "5", "4", "7",
       "7", "5", "8", "0", "9">>}

LiteralFieldTypes ==
    {Ty("u16"), Ty("i8"), Ty("u64"), Ty("usize"), Ty("f64"), Ty("bool"),
     Ty("String"), OptionOf(Ty("u16"))}

LiteralStructs ==
    {StructOf("S", <<FieldWith("port", ty, <<DefaultLiteral(l)>>)>>) :
        ty \in LiteralFieldTypes, l \in Literals}

\* the tagged enum of tests/derive_test.rs
Backend ==
    EnumOf("Backend", Some("type"),
        <<VariantWith("Postgres", <<Rename("postgresql")>>, "Named",
                      <<Field("host", Ty("String")), Field("port", Ty("u16"))>>),
          VariantWith("Sqlite", <<>>, "Named", <<Field("path", Ty("String"))>>)>>)

\* a tagged enum with a tuple-style and a unit variant
Mode ==
    EnumOf("Mode", Some("type"),
        <<VariantWith("Flat", <<>>, "Unnamed", <<Field("0", B)>>),
          VariantWith("Off", <<Rename("V")>>, "Unit", <<>>)>>)

\* tagged enums with one record-style variant V whose body is the field
\* list of an AttrStructs struct
VariantEnums ==
    {EnumOf("E", Some("type"),
            <<VariantWith("V", <<>>, "Named", <<FieldWith("port", ty, metas)>>)>>) :
        ty \in FieldTypes, metas \in MetaSeqs}

TaggedEnums == VariantEnums \cup {Backend, Mode}

\* untagged enums: record-style variants A {a} then B {b}; tuple-style and
\* unit variants
AB ==
    EnumOf("AB", None,
        <<VariantWith("A", <<>>, "Named", <<Field("a", Ty("i32"))>>),
          VariantWith("B", <<>>, "Named", <<Field("b", Ty("i32"))>>)>>)

Setting ==
    EnumOf("Setting", None,
        <<VariantWith("Num", <<>>, "Unnamed", <<Field("0", Ty("u16"))>>),
          VariantWith("Text", <<Rename("text")>>, "Unnamed", <<Field("0", Ty("String"))>>),
          VariantWith("Off", <<>>, "Unit", <<>>)>>)

UntaggedEnums == {AB, Setting}

DeriveTypes ==
    AttrStructs \cup LiteralStructs \cup {A, B, Host} \cup TaggedEnums
    \cup UntaggedEnums

\* objects over the keys "port" and "p"
PortEntryVals ==
    {Null, Bool(TRUE), Integer(I64(3000)), Integer(I64(70000)), String("x"),
     Float(Finite(FALSE, <<1, 5>>, -1)), Array(<<>>),
     Object(<<[k |-> "x", v |-> Integer(I64(1))], [k |-> "y", v |-> Integer(I64(2))]>>)}

RenamedEntryVals == {Integer(I64(1)), String("x")}

PortObjects ==
    {Object(port \o p) :
        port \in {<<>>} \cup {<<[k |-> "port", v |-> v]>> : v \in PortEntryVals},
        p \in {<<>>} \cup {<<[k |-> "p", v |-> v]>> : v \in RenamedEntryVals}}

\* objects over the keys "x", "y" and "b"
FlatObjects ==
    {Object(x \o y \o b) :
        x \in {<<>>} \cup {<<[k |-> "x", v |-> v]>> : v \in {Integer(I64(1)), String("x")}},
        y \in {<<>>, <<[k |-> "y", v |-> Integer(I64(2))]>>},
        b \in {<<>>} \cup {<<[k |-> "b", v |-> v]>> :
                v \in {Integer(I64(1)),
                       Object(<<[k |-> "x", v |-> Integer(I64(5))],
                                [k |-> "y", v |-> Integer(I64(6))]>>)}}}

\* objects with a "type" entry
Tagged(tag, entries) == Object(<<[k |-> "type", v |-> tag]>> \o entries)

TaggedObjects ==
    {Tagged(String("V"), rest) :
        rest \in {<<>>,
                  <<[k |-> "port", v |-> Integer(I64(3000))]>>,
                  <<[k |-> "port", v |-> String("x")]>>,
                  <<[k |-> "port", v |-> Null]>>,
                  <<[k |-> "p", v |-> Integer(I64(1))]>>,
                  <<[k |-> "port", v |-> Integer(I64(3000))],
                    [k |-> "p", v |-> String("x")]>>,
                  <<[k |-> "x", v |-> Integer(I64(1))],
                    [k |-> "y", v |-> Integer(I64(2))]>>,
                  <<[k |-> "x", v |-> String("x")],
                    [k |-> "y", v |-> Integer(I64(2))]>>}}
    \cup {Tagged(String(t), rest) :
            t \in {"postgresql", "Postgres"},
            rest \in {<<[k |-> "host", v |-> String("h")],
                        [k |-> "port", v |-> Integer(I64(1))]>>,
                      <<[k |-> "host", v |-> String("h")]>>,
                      <<[k |-> "host", v |-> String("h")],
                        [k |-> "port", v |-> String("x")]>>}}
    \cup {Tagged(String("Sqlite"), <<[k |-> "path", v |-> String("/db")]>>),
          Tagged(String("Flat"), <<[k |-> "x", v |-> Integer(I64(1))],
                                   [k |-> "y", v |-> Integer(I64(2))]>>),
          Tagged(String("Flat"), <<[k |-> "x", v |-> Integer(I64(1))]>>),
          Tagged(String("Off"), <<>>),
          Tagged(String("unknown"), <<>>),
          Tagged(Integer(I64(1)), <<>>)}

\* objects over the keys of the untagged enums
VariantObjects ==
    {Object(<<[k |-> "a", v |-> Integer(I64(1))], [k |-> "b", v |-> Integer(I64(2))]>>),
     Object(<<[k |-> "Num", v |-> String("x")], [k |-> "Off", v |-> Null]>>),
     Object(<<[k |-> "Text", v |-> String("x")]>>)}

DeriveValues ==
    PortObjects \cup FlatObjects \cup {Null, Integer(I64(1)), Array(<<>>)}
    \cup TaggedObjects \cup VariantObjects

MaxSources == 3    \* most sources of a LayeredSource

\* the base and the overlay of test_merge_values, and sources that put a
\* scalar over an object, an object over a scalar and a scalar at the root
SourceSet ==
    {MemorySource(Object(<<[k |-> "a", v |-> Integer(I64(1))],
                           [k |-> "b",
                            v |-> Object(<<[k |-> "c", v |-> Integer(I64(2))],
                                           [k |-> "d", v |-> Integer(I64(3))]>>)]>>),
                  "defaults"),
     MemorySource(Object(<<[k |-> "a", v |-> Integer(I64(10))],
                           [k |-> "b",
                            v |-> Object(<<[k |-> "c", v |-> Integer(I64(20))]>>)],
                           [k |-> "e", v |-> Integer(I64(5))]>>),
                  "production"),
     MemorySource(Object(<<[k |-> "b", v |-> Integer(I64(7))]>>), "memory"),
     MemorySource(Object(<<[k |-> "b",
                            v |-> Object(<<[k |-> "c",
                                            v |-> Object(<<[k |-> "x", v |-> Null]>>)]>>)],
                           [k |-> "a", v |-> Array(<<Integer(I64(1))>>)]>>),
                  "nested"),
     MemorySource(Object(<<>>), "empty"),
     MemorySource(Integer(I64(1)), "scalar"),
     FailingSource("failing", FileNotFound("test")),
     FailingSource("broken", KeyNotFound("x"))}

MaxHandlers == 2   \* most handlers registered with on_change

MaxSets == 2       \* most calls of Config::set on one Config

Handlers == {"log", "audit"}

KeyAB == <<"a", ".", "b">>

\* keys of one, two and three parts, the empty key and a key ending in '.'
SetKeys == {<<"a">>, <<"b">>, KeyAB, KeyAB \o <<".", "a">>, <<>>, <<"a", ".">>}

SetVals == {Integer(I64(1)), String("x"), Object(<<[k |-> "b", v |-> Integer(I64(2))]>>)}

\* what a Config is created over
ConfigDatas ==
    {Object(<<>>), Integer(I64(0)), Object(<<[k |-> "a", v |-> Integer(I64(1))]>>),
     Object(<<[k |-> "a", v |-> Object(<<[k |-> "b", v |-> String("x")],
                                         [k |-> "a", v |-> Null]>>)],
              [k |-> "b", v |-> Integer(I64(8080))]>>)}

(***************************************************************************)
(* The state machine: a Config is built over some data for some target,    *)
(* one extraction is run against it, and the error it returns may be       *)
(* enriched by its caller.                                                 *)
(***************************************************************************)
Init ==
    /\ target_pointer_width \in PointerWidths
    /\ data \in Values
    /\ op = "new"
    /\ arg = <<>>
    /\ calls = <<>>
    /\ prev = None
    /\ result = None
    /\ sources = <<>>
    /\ emitter = None
    /\ sets = 0
    /\ seq_access = SeqAccess_new(<<>>)
    /\ nexts = <<>>

\* T::from_value(&data), for a T whose impl builds
DoFromValue(T) ==
    /\ op = "new"
    /\ Compiles(T)
    /\ op' = "from_value"
    /\ arg' = T
    /\ calls' = <<>>
    /\ result' = FromValue(T, data)
    /\ UNCHANGED <<target_pointer_width, data, prev>>
    /\ UNCHANGED <<layered, events, sets, cursor>>

\* visit(&data, &mut visitor)
DoVisit(visitor) ==
    /\ op = "new"
    /\ op' = "visit"
    /\ arg' = visitor
    /\ \E visited \in {visit(data, visitor)} :
            calls' = visited.calls /\ result' = visited.result
    /\ UNCHANGED <<target_pointer_width, data, prev>>
    /\ UNCHANGED <<layered, events, sets, cursor>>

\* config.get::<T>(key)
DoConfigGet(T, key) ==
    /\ op = "new"
    /\ op' = "get"
    /\ arg' = [T |-> T, key |-> key]
    /\ calls' = <<>>
    /\ result' = Config_get(T, key)
    /\ UNCHANGED <<target_pointer_width, data, prev>>
    /\ UNCHANGED <<layered, events, sets, cursor>>

\* config.visit_key(key, &mut visitor)
DoConfigVisitKey(key, visitor) ==
    /\ op = "new"
    /\ op' = "visit_key"
    /\ arg' = [visitor |-> visitor, key |-> key]
    /\ \E visited \in {Config_visit_key(key, visitor)} :
            calls' = visited.calls /\ result' = visited.result
    /\ UNCHANGED <<target_pointer_width, data, prev>>
    /\ UNCHANGED <<layered, events, sets, cursor>>

\* err.with_key(key) on the error an operation returned
DoWithKey(key) ==
    /\ op \in {"from_value", "visit", "get", "visit_key"}
    /\ ~result.ok
    /\ op' = "with_key"
    /\ arg' = key
    /\ prev' = result
    /\ result' = Err(with_key(result.err, key))
    /\ UNCHANGED <<target_pointer_width, data, calls>>
    /\ UNCHANGED <<layered, events, sets, cursor>>

Next ==
    \/ \E T \in Types : DoFromValue(T)
    \/ \E visitor \in Visitors : DoVisit(visitor)
    \/ \E T \in ConfigTypes, key \in ConfigKeys : DoConfigGet(T, key)
    \/ \E key \in ConfigKeys, visitor \in ConfigVisitors : DoConfigVisitKey(key, visitor)
    \/ \E key \in EnrichKeys : DoWithKey(key)

Spec == Init /\ [][Next]_vars

(***************************************************************************)
(* The derived impls: a struct is declared with some attributes on its     *)
(* fields; either the impl derived for it does not build, or it is run     *)
(* against some data.                                                      *)
(***************************************************************************)
InitDerive ==
    /\ target_pointer_width \in PointerWidths
    /\ data \in DeriveValues
    /\ op = "new"
    /\ arg = <<>>
    /\ calls = <<>>
    /\ prev = None
    /\ result = None
    /\ sources = <<>>
    /\ emitter = None
    /\ sets = 0
    /\ seq_access = SeqAccess_new(<<>>)
    /\ nexts = <<>>

\* #[derive(FromValue)] on T expands to an impl that does not build
DoDeriveFails(T) ==
    /\ op = "new"
    /\ ~Compiles(T)
    /\ op' = "compile_error"
    /\ arg' = T
    /\ UNCHANGED <<target_pointer_width, data, calls, prev, result>>
    /\ UNCHANGED <<layered, events, sets, cursor>>

NextDerive ==
    \/ \E T \in DeriveTypes : DoFromValue(T)
    \/ \E T \in DeriveTypes : DoDeriveFails(T)
    \/ \E key \in EnrichKeys : DoWithKey(key)

SpecDerive == InitDerive /\ [][NextDerive]_vars

(***************************************************************************)
(* LayeredSource / ConfigBuilder: sources are added, then loaded or built  *)
(* into a Config.                                                          *)
(***************************************************************************)
InitLayered ==
    /\ target_pointer_width = 64
    /\ data = Null
    /\ op = "new"
    /\ arg = <<>>
    /\ calls = <<>>
    /\ prev = None
    /\ result = None
    /\ sources = <<>>
    /\ emitter = None
    /\ sets = 0
    /\ seq_access = SeqAccess_new(<<>>)
    /\ nexts = <<>>

\* layered.with_source(source) / builder.add_source(source)
DoWithSource(source) ==
    /\ Len(sources) < MaxSources
    /\ op' = "with_source"
    /\ arg' = source
    /\ sources' = Append(sources, source)
    /\ result' = None
    /\ UNCHANGED <<target_pointer_width, data, calls, prev, events, sets, cursor>>

\* layered.load()
DoLoad ==
    /\ op' = "load"
    /\ arg' = <<>>
    /\ result' = LayeredSource_load(sources)
    /\ UNCHANGED <<target_pointer_width, data, calls, prev, layered, events, sets, cursor>>

\* builder.build(): Config::new(layered.load()?)
DoBuild ==
    /\ op' = "build"
    /\ arg' = <<>>
    /\ \E loaded \in {LayeredSource_load(sources)} :
            /\ result' = loaded
            /\ data' = IF loaded.ok THEN loaded.val ELSE data
    /\ UNCHANGED <<target_pointer_width, calls, prev, layered, events, sets, cursor>>

NextLayered ==
    \/ \E source \in SourceSet : DoWithSource(source)
    \/ DoLoad
    \/ DoBuild

SpecLayered == InitLayered /\ [][NextLayered]_vars

(***************************************************************************)
(* Config: handlers are registered and values are set.                     *)
(***************************************************************************)
InitConfig ==
    /\ target_pointer_width = 64
    /\ data \in ConfigDatas
    /\ op = "new"
    /\ arg = <<>>
    /\ calls = <<>>
    /\ prev = None
    /\ result = None
    /\ sources = <<>>
    /\ emitter = None
    /\ sets = 0
    /\ seq_access = SeqAccess_new(<<>>)
    /\ nexts = <<>>

\* config.on_change(handler)
DoOnChange(handler) ==
    /\ IF emitter.some
       THEN Len(map_get(emitter.v, "changed").v) < MaxHandlers
       ELSE TRUE
    /\ op' = "on_change"
    /\ arg' = handler
    /\ emitter' = Config_on_change(handler)
    /\ calls' = <<>>
    /\ UNCHANGED <<target_pointer_width, data, prev, result, layered, sets, cursor>>

\* config.set(key, value); prev is the data it started from
DoSet(key, value) ==
    /\ sets < MaxSets
    /\ sets' = sets + 1
    /\ op' = "set"
    /\ arg' = [key |-> key, value |-> value]
    /\ prev' = data
    /\ data' = set_nested(data, split(key, "", <<>>), value)
    /\ calls' = emit_changed(key, value, previous_value(key))
    /\ UNCHANGED <<target_pointer_width, result, layered, events, cursor>>

NextConfig ==
    \/ \E handler \in Handlers : DoOnChange(handler)
    \/ \E key \in SetKeys, value \in SetVals : DoSet(key, value)

SpecConfig == InitConfig /\ [][NextConfig]_vars

(***************************************************************************)
(* SeqAccess: a cursor is created over the items of an Array node and      *)
(* next_element is called on it, also after its end.                       *)
(***************************************************************************)
MaxPastEnd == 2    \* most next_element calls made beyond the array's length

ElementTypes == {Ty("i32"), Ty("String")}

InitSeq ==
    /\ target_pointer_width = 64
    /\ data \in Arrays
    /\ op = "new"
    /\ arg = <<>>
    /\ calls = <<>>
    /\ prev = None
    /\ result = None
    /\ sources = <<>>
    /\ emitter = None
    /\ sets = 0
    /\ seq_access = SeqAccess_new(data.items)
    /\ nexts = <<>>

\* seq.next_element::<T>(); prev is the SeqAccess it was called on
DoNextElement(T) ==
    /\ Len(nexts) < Len(data.items) + MaxPastEnd
    /\ op' = "next_element"
    /\ arg' = T
    /\ prev' = seq_access
    /\ \E next \in {SeqAccess_next_element(seq_access, T)} :
          /\ seq_access' = next.seq
          /\ result' = next.result
          /\ nexts' = Append(nexts, [T |-> T, result |-> next.result])
    /\ UNCHANGED <<target_pointer_width, data, calls, layered, events, sets>>

NextSeq == \E T \in ElementTypes : DoNextElement(T)

SpecSeq == InitSeq /\ [][NextSeq]_vars

(***************************************************************************)
(* Properties                                                              *)
(***************************************************************************)
\* outer is what the enrichment rule makes of the error inner at segment k
Enriched(inner, outer, k) ==
    IF inner.kind = "ConversionError"
    THEN outer = ConversionError(k, inner.type_name, inner.source)
    ELSE outer = inner

\* index (1-based) of the first element of a non-empty set of indices
First(S) == CHOOSE i \in S : \A j \in S : i <= j

FailingElements(T, items) ==
    {i \in 1..Len(items) : ~FromValue(T, items[i]).ok}

FailingEntries(K, V, entries) ==
    {i \in 1..Len(entries) :
        ~FromValue(K, String(entries[i].k)).ok \/ ~FromValue(V, entries[i].v).ok}

FailingFields(T, obj) ==
    {i \in 1..Len(T.fields) : ~field_extraction(T.fields[i], Object(obj), obj).ok}

\* C1: with_key(k) on a ConversionError gives a ConversionError with key k
\* and the same type_name and cause; on any other error it gives that error
\* back unmodified; and that is what each enrichment site (Vec element, Map
\* entry value, derived struct field, Config::get, Config::visit_key) does
\* to the error of the nested extraction.
C1_WithKeyRule ==
    /\ op = "with_key" => Enriched(prev.err, result.err, arg)
    /\ (op = "from_value" /\ arg.t = "Vec" /\ data.kind = "Array"
            /\ FailingElements(arg.elem, data.items) # {}) =>
        LET i == First(FailingElements(arg.elem, data.items))
        IN  /\ ~result.ok
            /\ Enriched(FromValue(arg.elem, data.items[i]).err, result.err,
                        "[" \o ToString(i - 1) \o "]")
    /\ (op = "from_value" /\ arg.t = "HashMap" /\ data.kind = "Object"
            /\ FailingEntries(arg.key, arg.val, data.entries) # {}) =>
        LET i == First(FailingEntries(arg.key, arg.val, data.entries))
        IN  FromValue(arg.key, String(data.entries[i].k)).ok =>
                /\ ~result.ok
                /\ Enriched(FromValue(arg.val, data.entries[i].v).err,
                            result.err, data.entries[i].k)
    /\ (op = "from_value" /\ arg.t = "Struct" /\ data.kind = "Object"
            /\ FailingFields(arg, data.entries) # {}) =>
        LET f == arg.fields[First(FailingFields(arg, data.entries))]
        IN  (~f.flatten /\ map_get(data.entries, key_name(f)).some) =>
                /\ ~result.ok
                /\ Enriched(FromValue(f.ty, map_get(data.entries, key_name(f)).v).err,
                            result.err, key_name(f))
    /\ (op = "get" /\ get_value(arg.key).ok
            /\ ~FromValue(arg.T, get_value(arg.key).val).ok) =>
        /\ ~result.ok
        /\ Enriched(FromValue(arg.T, get_value(arg.key).val).err, result.err,
                    to_string(arg.key))
    /\ (op = "visit_key" /\ get_value(arg.key).ok
            /\ ~visit(get_value(arg.key).val, arg.visitor).result.ok) =>
        /\ ~result.ok
        /\ Enriched(visit(get_value(arg.key).val, arg.visitor).result.err,
                    result.err, to_string(arg.key))

\* a ConversionError that already carries a key gets another key
C1_Witness ==
    /\ op = "with_key"
    /\ prev.err.kind = "ConversionError"
    /\ prev.err.key = "[1]"
    /\ arg = "my.key"
    /\ result.err.key = "my.key"

\* the path of the node of v at which extraction as T fails, one segment
\* per enclosing sequence element, map entry or struct field, outermost
\* first; <<>> when v itself is the offending node
RECURSIVE PathOfFailure(_, _)
PathOfFailure(T, v) ==
    CASE T.t = "Vec" /\ v.kind = "Array" ->
            LET i == First(FailingElements(T.elem, v.items))
            IN  <<[index |-> TRUE, text |-> ToString(i - 1)]>>
                \o PathOfFailure(T.elem, v.items[i])
      [] T.t = "Struct" /\ v.kind = "Object" ->
            LET f == T.fields[First(FailingFields(T, v.entries))]
            IN  <<[index |-> FALSE, text |-> key_name(f)]>>
                \o PathOfFailure(f.ty, map_get(v.entries, key_name(f)).v)
      [] OTHER -> <<>>

\* a.b[i].c : keys joined by dots, indices in brackets
RECURSIVE JoinPath(_, _)
JoinPath(path, acc) ==
    IF path = <<>> THEN acc
    ELSE IF path[1].index
    THEN JoinPath(Tail(path), acc \o "[" \o path[1].text \o "]")
    ELSE IF acc = "" THEN JoinPath(Tail(path), path[1].text)
    ELSE JoinPath(Tail(path), acc \o "." \o path[1].text)

\* C2: a ConversionError raised several layers deep (struct field ->
\* sequence element -> struct field, also below Config::get) reaches the
\* top with the fully qualified path of the offending node as its key.
C2_FullyQualifiedPath ==
    /\ (op = "from_value" /\ arg \in {Server, Database, AppConfig, VecOf(Server)}
            /\ data \in Documents /\ ~result.ok
            /\ result.err.kind = "ConversionError") =>
        result.err.key = JoinPath(PathOfFailure(arg, data), "")
    /\ (op = "get" /\ arg.T \in {Database, VecOf(Server)}
            /\ data \in Documents /\ ~result.ok
            /\ result.err.kind = "ConversionError") =>
        result.err.key = JoinPath(PathOfFailure(arg.T, get_value(arg.key).val),
                                  to_string(arg.key))

\* v is of the kind, and in the range, of the scalar type T
Accepts(T, v) ==
    CASE T.t = "bool" -> v.kind = "Bool"
      [] T.t = "String" -> v.kind = "String"
      [] OTHER -> /\ v.kind = "Integer"
                  /\ IntLe(RangeMin(T.t), v.n)
                  /\ IntLe(v.n, RangeMax(T.t))

\* C3: scalar extraction succeeds only on a node of the target's kind and,
\* for an integer target, inside its range; every failure is a
\* ConversionError with empty key naming the target type.
C3_NoCoercion ==
    (op = "from_value" /\ arg \in ScalarTypes) =>
        /\ result.ok <=> Accepts(arg, data)
        /\ ~result.ok =>
            /\ result.err.kind = "ConversionError"
            /\ result.err.key = ""
            /\ result.err.type_name = arg.t

\* u8 rejects 300
C3_Witness ==
    /\ op = "from_value"
    /\ arg = Ty("u8")
    /\ data = Integer(I64(300))
    /\ ~result.ok
    /\ result.err.type_name = "u8"

\* impl From<T> for ConfigValue, and the node holding an integer x of the
\* types without a From impl
value_of(T, x) ==
    CASE T.t = "bool" -> Bool(x)
      [] T.t = "String" -> String(x)
      [] OTHER -> Integer(x)

\* the values of the scalar type T that a node can hold
Representable(T) ==
    CASE T.t = "bool" -> BOOLEAN
      [] T.t = "String" -> StrVals
      [] OTHER -> {n \in IntVals : IntLe(RangeMin(T.t), n) /\ IntLe(n, RangeMax(T.t))}

\* C4: extracting T from the node built from a value x of T gives back x.
C4_RoundTrip ==
    (op = "from_value" /\ arg \in ScalarTypes) =>
        \A x \in Representable(arg) :
            data = value_of(arg, x) => result = Ok(x)

\* u8 gives back its largest value
C4_Witness ==
    /\ op = "from_value"
    /\ arg = Ty("u8")
    /\ data = value_of(Ty("u8"), U8_MAX)
    /\ result = Ok(U8_MAX)

\* C5: Option<T> extracts Null as None, a value T accepts as Some of it,
\* and fails with T's error on a non-null value T rejects.
C5_Option ==
    (op = "from_value" /\ arg.t = "Option") =>
        IF data = Null THEN result = Ok(None)
        ELSE IF FromValue(arg.elem, data).ok
        THEN result = Ok(Some(FromValue(arg.elem, data).val))
        ELSE result = FromValue(arg.elem, data)

\* a malformed non-null value fails
C5_Witness ==
    /\ op = "from_value"
    /\ arg = OptionOf(Ty("i32"))
    /\ data = String("x")
    /\ ~result.ok
    /\ result.err.type_name = "i32"

\* C6: Vec<T> needs an Array node; on success the result holds the
\* elements' extractions in the array's order; on failure the error is that
\* of the lowest-index failing element, a ConversionError carrying "[i]".
C6_Vec ==
    (op = "from_value" /\ arg.t = "Vec") =>
        IF data.kind # "Array"
        THEN /\ ~result.ok
             /\ result.err.kind = "ConversionError"
             /\ result.err.type_name = "Vec"
        ELSE IF FailingElements(arg.elem, data.items) = {}
        THEN /\ result.ok
             /\ Len(result.val) = Len(data.items)
             /\ \A i \in 1..Len(data.items) :
                    result.val[i] = FromValue(arg.elem, data.items[i]).val
        ELSE LET i == First(FailingElements(arg.elem, data.items))
                 e == FromValue(arg.elem, data.items[i]).err
             IN  /\ ~result.ok
                 /\ result.err.kind = e.kind
                 /\ IF e.kind = "ConversionError"
                    THEN /\ result.err.key = "[" \o ToString(i - 1) \o "]"
                         /\ result.err.type_name = e.type_name
                         /\ result.err.source = e.source
                    ELSE result.err = e

\* [Integer(1), String("x"), Integer(1)] as Vec<i32> fails at [1]
C6_Witness ==
    /\ op = "from_value"
    /\ arg = VecOf(Ty("i32"))
    /\ data = Array(<<Integer(I64(1)), String("x"), Integer(I64(1))>>)
    /\ ~result.ok
    /\ result.err.key = "[1]"

\* C7: Map<K, V> needs an Object node; every entry's value is extracted as
\* V; when the first entry to fail fails on its value with a
\* ConversionError, the error returned carries that entry's key.
C7_MapValue ==
    (op = "from_value" /\ arg.t = "HashMap") =>
        IF data.kind # "Object"
        THEN /\ ~result.ok
             /\ result.err.kind = "ConversionError"
             /\ result.err.type_name = "HashMap"
        ELSE IF FailingEntries(arg.key, arg.val, data.entries) = {}
        THEN /\ result.ok
             /\ result.val =
                    {<<FromValue(arg.key, String(data.entries[i].k)).val,
                       FromValue(arg.val, data.entries[i].v).val>> :
                        i \in 1..Len(data.entries)}
        ELSE LET i == First(FailingEntries(arg.key, arg.val, data.entries))
                 e == FromValue(arg.val, data.entries[i].v).err
             IN  /\ ~result.ok
                 /\ (FromValue(arg.key, String(data.entries[i].k)).ok
                        /\ e.kind = "ConversionError") =>
                        result.err = ConversionError(data.entries[i].k,
                                                     e.type_name, e.source)

\* {"a": 1, "bad": "x"} as Map<String, i32> fails at "bad"
C7_Witness ==
    /\ op = "from_value"
    /\ arg = HashMapOf(Ty("String"), Ty("i32"))
    /\ data = Object(<<[k |-> "a", v |-> Integer(I64(1))],
                       [k |-> "bad", v |-> String("x")]>>)
    /\ ~result.ok
    /\ result.err.key = "bad"

\* C8: when the first entry to fail fails on its key with a
\* ConversionError, the error returned carries that entry's key.
C8_MapKeyEnriched ==
    (op = "from_value" /\ arg.t = "HashMap" /\ data.kind = "Object"
        /\ FailingEntries(arg.key, arg.val, data.entries) # {}) =>
        LET i == First(FailingEntries(arg.key, arg.val, data.entries))
            e == FromValue(arg.key, String(data.entries[i].k))
        IN  (~e.ok /\ e.err.kind = "ConversionError") =>
                /\ ~result.ok
                /\ result.err = ConversionError(data.entries[i].k,
                                                e.err.type_name, e.err.source)

\* the visitor method for each kind of node, and what it is given
KindMethod(kind) ==
    CASE kind = "Null" -> "visit_null"
      [] kind = "Bool" -> "visit_bool"
      [] kind = "Integer" -> "visit_i64"
      [] kind = "Float" -> "visit_f64"
      [] kind = "String" -> "visit_str"
      [] kind = "Array" -> "visit_array"
      [] kind = "Object" -> "visit_map"

Payload(v) ==
    CASE v.kind = "Null" -> <<>>
      [] v.kind = "Bool" -> v.b
      [] v.kind = "Integer" -> v.n
      [] v.kind = "Float" -> v.f
      [] v.kind = "String" -> v.s
      [] v.kind = "Array" -> v.items
      [] v.kind = "Object" -> v.entries

\* C9: visit calls exactly the one method of the node's kind, with the
\* node's payload, and returns what that method returns.
C9_Dispatch ==
    op = "visit" =>
        /\ calls = <<KindMethod(data.kind)>>
        /\ result = visit_method(arg, KindMethod(data.kind), Payload(data)).result
        /\ (arg.kind = "User" /\ arg.methods[KindMethod(data.kind)] = "ok") =>
                result = Ok([method |-> KindMethod(data.kind),
                             payload |-> Payload(data)])
        /\ (arg.kind = "User" /\ arg.methods[KindMethod(data.kind)] = "fail") =>
                result = Err(FileNotFound("mock visitor error"))

\* a visitor overriding every method is given a Bool node
C9_Witness ==
    /\ op = "visit"
    /\ data = Bool(TRUE)
    /\ arg.kind = "User"
    /\ \A m \in Methods : arg.methods[m] = "ok"
    /\ result = Ok([method |-> "visit_bool", payload |-> TRUE])

\* C10: a visitor that does not override the method of the node's kind
\* fails with a ConversionError with empty key, its expecting() text as
\* type_name and "unexpected <kind>" as cause; the error text shows the
\* expecting() text.
C10_DefaultErrors ==
    (op = "visit" /\ arg.kind = "User"
        /\ arg.methods[KindMethod(data.kind)] = "default") =>
        /\ result = Err(ConversionError("", arg.expecting,
                                        "unexpected " \o type_name(data)))
        /\ Display(result.err) =
                "Failed to convert value at '' to type " \o arg.expecting
                \o ": unexpected " \o type_name(data)

\* a visitor overriding only visit_i64 is given a String node
C10_Witness ==
    /\ op = "visit"
    /\ data = String("x")
    /\ arg.kind = "User"
    /\ \A m \in Methods : arg.methods[m] = "ok" <=> m = "visit_i64"
    /\ ~result.ok
    /\ result.err.type_name = "a port number (0-65535)"

\* C11: visit hands an Array node to visit_seq as a SeqAccess over the
\* array, so a visitor overriding only visit_seq succeeds on it, and hands
\* an Object node to visit_map as a MapAccess over its entries.
C11_PullViews ==
    op = "visit" =>
        /\ (data.kind = "Array" /\ arg.kind = "User"
                /\ arg.methods["visit_seq"] = "ok") =>
            /\ calls[1] = "visit_seq"
            /\ result = Ok([method |-> "visit_seq",
                            payload |-> SeqAccess_new(data.items)])
        /\ (data.kind = "Object" /\ arg.kind = "User"
                /\ arg.methods["visit_map"] = "ok") =>
            /\ calls = <<"visit_map">>
            /\ result = Ok([method |-> "visit_map",
                            payload |-> MapAccess_new(data.entries)])

(***************************************************************************)
(* Derived structs: the rule of a field by the precedence of section 4.4   *)
(***************************************************************************)
TheField == arg.fields[1]

StructValue(f, r) == IF r.ok THEN Ok(<<[name |-> f.ident, val |-> r.val]>>) ELSE r

HasFlag(f, path) ==
    \E i \in 1..Len(f.metas) :
        f.metas[i].path = path /\ "lit" \notin DOMAIN f.metas[i]

HasLiteral(f) ==
    \E i \in 1..Len(f.metas) :
        f.metas[i].path = "default" /\ "lit" \in DOMAIN f.metas[i]

LiteralOf(f) ==
    f.metas[CHOOSE i \in 1..Len(f.metas) :
                f.metas[i].path = "default" /\ "lit" \in DOMAIN f.metas[i]].lit

\* the rule the precedence list selects from the attributes a field carries
PrecedenceRule(f) ==
    IF HasFlag(f, "skip") THEN "skip"
    ELSE IF HasFlag(f, "flatten") THEN "flatten"
    ELSE IF HasFlag(f, "required") THEN "required"
    ELSE IF HasLiteral(f) THEN "literal"
    ELSE IF HasFlag(f, "default") THEN "default"
    ELSE IF f.ty.t = "Option" THEN "option"
    ELSE "plain"

\* what a literal denotes in a field of type ty, if it denotes anything
LiteralValue(ty, lit) ==
    CASE ty.t \in IntNames -> parse_int(lit, RangeMin(ty.t), RangeMax(ty.t))
      [] ty.t = "f64" -> parse_f64(lit)
      [] ty.t = "bool" -> parse_bool(lit)
      [] ty.t = "String" -> Some(to_string(lit))
      [] OTHER -> None

\* the field's extraction under a given rule
RuleExtraction(rule, f, value) ==
    CASE rule = "skip" -> Ok(Default(f.ty))
      [] rule = "flatten" -> FromValue(f.ty, value)
      [] rule = "required" -> required_extraction(f, value.entries)
      [] rule = "literal" ->
            IF map_get(value.entries, key_name(f)).some
            THEN present_extraction(f, value.entries)
            ELSE Ok(LiteralValue(f.ty, LiteralOf(f)).v)
      [] rule = "default" -> default_extraction(f, value.entries)
      [] rule = "option" -> option_extraction(f, value.entries)
      [] rule = "plain" -> plain_extraction(f, value.entries)

\* C12: whatever attributes a field carries, in whatever order they are
\* written, its extraction is the one of the first rule that matches in
\* skip > flatten > required > default = "literal" > bare default >
\* Option type > plain; a field with both defaults uses the literal.
C12_Precedence ==
    (op = "from_value" /\ arg \in AttrStructs /\ data.kind = "Object"
        /\ (PrecedenceRule(TheField) = "literal"
                => LiteralValue(TheField.ty, LiteralOf(TheField)).some))
    => result = StructValue(TheField,
                    RuleExtraction(PrecedenceRule(TheField), TheField, data))

\* the object without its entry under key, and with v under key instead
RemoveEntry(value, key) ==
    LET Other(e) == e.k # key IN Object(SelectSeq(value.entries, Other))

SetEntry(value, key, v) ==
    Object(RemoveEntry(value, key).entries \o <<[k |-> key, v |-> v]>>)

EntryAt(value, key) == map_get(value.entries, key)

\* C13: a field marked skip always gets its type's Default value: the
\* struct extracted is the same whatever is stored under the field's key,
\* nothing or a value of any kind, and that entry raises no error.
C13_Skip ==
    (op = "from_value" /\ arg \in AttrStructs /\ HasFlag(TheField, "skip")
        /\ data.kind = "Object")
    => /\ result = Ok(<<[name |-> TheField.ident, val |-> Default(TheField.ty)]>>)
       /\ FromValue(arg, RemoveEntry(data, key_name(TheField))) = result
       /\ \A v \in PortEntryVals :
            FromValue(arg, SetEntry(data, key_name(TheField), v)) = result

\* a skipped u16 field extracted from an object holding a String under its key
C13_Witness ==
    /\ op = "from_value" /\ arg \in AttrStructs /\ data.kind = "Object"
    /\ HasFlag(TheField, "skip") /\ TheField.ty = Ty("u16")
    /\ EntryAt(data, key_name(TheField)) = Some(String("x"))
    /\ result = Ok(<<[name |-> "port", val |-> ZERO]>>)

\* C14: a field marked flatten looks no key up: its value is its type's
\* extraction of the whole enclosing object, so A {b: B} with b flattened and
\* B {x, y} extracts {"x": 1, "y": 2} to A {b: B {x: 1, y: 2}}, whatever is
\* stored under "b".
C14_Flatten ==
    (op = "from_value" /\ arg \in AttrStructs \cup {A} /\ data.kind = "Object"
        /\ HasFlag(TheField, "flatten") /\ ~HasFlag(TheField, "skip"))
    => /\ result = StructValue(TheField, FromValue(TheField.ty, data))
       /\ (arg = A /\ EntryAt(data, "x") = Some(Integer(I64(1)))
                   /\ EntryAt(data, "y") = Some(Integer(I64(2))))
            => result = Ok(<<[name |-> "b",
                              val |-> <<[name |-> "x", val |-> I64(1)],
                                        [name |-> "y", val |-> I64(2)]>>]>>)

\* A extracted from an object with x, y and another B stored under "b"
C14_Witness ==
    /\ op = "from_value" /\ arg = A /\ data.kind = "Object"
    /\ EntryAt(data, "x") = Some(Integer(I64(1)))
    /\ EntryAt(data, "y") = Some(Integer(I64(2)))
    /\ EntryAt(data, "b").some /\ EntryAt(data, "b").v.kind = "Object"
    /\ result.ok /\ result.val[1].val[1].val = I64(1)

\* C15: a field marked required (and not skip or flatten) fails with
\* KeyNotFound of its resolved key name when the key is absent, even if its
\* type is Option<T> (never Ok(None)); a present key is extracted as usual.
C15_Required ==
    (op = "from_value" /\ arg \in AttrStructs /\ data.kind = "Object"
        /\ HasFlag(TheField, "required")
        /\ ~HasFlag(TheField, "skip") /\ ~HasFlag(TheField, "flatten"))
    => IF EntryAt(data, key_name(TheField)).some
       THEN result = StructValue(TheField,
                        map_err_with_key(
                            FromValue(TheField.ty, EntryAt(data, key_name(TheField)).v),
                            key_name(TheField)))
       ELSE result = Err(KeyNotFound(key_name(TheField)))

\* a required, renamed Option<u16> field whose key is absent
C15_Witness ==
    /\ op = "from_value" /\ arg \in AttrStructs /\ data.kind = "Object"
    /\ HasFlag(TheField, "required") /\ TheField.ty = OptionOf(Ty("u16"))
    /\ TheField.rename = Some("p")
    /\ ~EntryAt(data, "p").some /\ EntryAt(data, "port").some
    /\ result = Err(KeyNotFound("p"))

\* the field carries one form of the default attribute and no attribute
\* that outranks it
DefaultRuled(f) ==
    /\ PrecedenceRule(f) \in {"literal", "default"}
    /\ ~(HasLiteral(f) /\ HasFlag(f, "default"))

\* the value the default attribute gives the field when its key is absent
DefaultOf(f) ==
    IF HasLiteral(f) THEN LiteralValue(f.ty, LiteralOf(f)) ELSE Some(Default(f.ty))

\* C16: a field with a default attribute gets, when its key is absent, the
\* literal's value (the type's Default value for a bare default) and no
\* error; when the key is present it gets the value extracted from it, and a
\* present value that does not extract is an error, not the default. A u16
\* port with default = "8080" is 8080 from {} and 3000 from {"port": 3000}.
C16_Default ==
    (op \in {"from_value", "compile_error"}
        /\ arg \in AttrStructs \cup LiteralStructs
        /\ DefaultRuled(TheField) /\ DefaultOf(TheField).some)
    => /\ op = "from_value"
       /\ data.kind = "Object"
            => IF EntryAt(data, key_name(TheField)).some
               THEN result = StructValue(TheField,
                                map_err_with_key(
                                    FromValue(TheField.ty,
                                              EntryAt(data, key_name(TheField)).v),
                                    key_name(TheField)))
               ELSE result = Ok(<<[name |-> TheField.ident,
                                   val |-> DefaultOf(TheField).v]>>)

\* C17: a default = "literal" is read according to the field's type, not
\* according to what the text looks like: a String field with default
\* "8080" or "true" is the string "8080" or "true" when its key is absent,
\* an integer field is the integer the text writes, a float field the
\* float, a bool field the bool.
C17_LiteralByType ==
    (op \in {"from_value", "compile_error"} /\ arg \in LiteralStructs
        /\ LiteralValue(TheField.ty, LiteralOf(TheField)).some)
    => /\ op = "from_value"
       /\ (data.kind = "Object" /\ ~EntryAt(data, key_name(TheField)).some)
            => result.ok
               /\ result.val[1].val = LiteralValue(TheField.ty, LiteralOf(TheField)).v

\* the key name of a field: the rename written on it, else its identifier
ResolvedKey(f) ==
    IF \E i \in 1..Len(f.metas) : f.metas[i].path = "rename"
    THEN f.metas[CHOOSE i \in 1..Len(f.metas) : f.metas[i].path = "rename"].name
    ELSE f.ident

\* C18: an Option<T> field without attributes is None when its key is
\* absent or holds Null, Some(t) when the entry extracts as T, and makes the
\* struct's extraction fail when the entry does not extract as T.
C18_OptionField ==
    (op = "from_value" /\ arg \in AttrStructs /\ data.kind = "Object"
        /\ PrecedenceRule(TheField) = "option")
    => IF ~EntryAt(data, ResolvedKey(TheField)).some
       THEN result = Ok(<<[name |-> TheField.ident, val |-> None]>>)
       ELSE IF EntryAt(data, ResolvedKey(TheField)).v.kind = "Null"
       THEN result = Ok(<<[name |-> TheField.ident, val |-> None]>>)
       ELSE IF FromValue(TheField.ty.elem, EntryAt(data, ResolvedKey(TheField)).v).ok
       THEN result = Ok(<<[name |-> TheField.ident,
                           val |-> Some(FromValue(TheField.ty.elem,
                                            EntryAt(data, ResolvedKey(TheField)).v).val)]>>)
       ELSE ~result.ok

\* an Option<u16> field whose key holds a String
C18_Witness ==
    /\ op = "from_value" /\ arg \in AttrStructs /\ data.kind = "Object"
    /\ PrecedenceRule(TheField) = "option"
    /\ EntryAt(data, ResolvedKey(TheField)) = Some(String("x"))
    /\ ~result.ok

\* C19: a field without attributes whose type is not Option fails with
\* KeyNotFound of its resolved key name, the rename if there is one and else
\* the identifier, when the key is absent: {host: String} from {} fails with
\* KeyNotFound("host").
C19_PlainField ==
    (op = "from_value" /\ arg \in AttrStructs \cup {Host} /\ data.kind = "Object"
        /\ PrecedenceRule(TheField) = "plain"
        /\ ~EntryAt(data, ResolvedKey(TheField)).some)
    => /\ result = Err(KeyNotFound(ResolvedKey(TheField)))
       /\ arg = Host => result = Err(KeyNotFound("host"))

\* a plain field renamed to "p", extracted from an object that holds "port"
\* but not "p"
C19_Witness ==
    /\ op = "from_value" /\ arg \in AttrStructs /\ data.kind = "Object"
    /\ PrecedenceRule(TheField) = "plain" /\ ResolvedKey(TheField) = "p"
    /\ EntryAt(data, "port").some /\ ~EntryAt(data, "p").some
    /\ result = Err(KeyNotFound("p"))

\* C20: a derived struct extracts from an Object only, and a ConversionError
\* raised while extracting a field that reads input, a flattened field
\* included, leaves the struct with the field's resolved key name as its key.
C20_FieldKey ==
    (op = "from_value" /\ arg \in AttrStructs \cup LiteralStructs \cup {A, Host})
    => /\ data.kind # "Object"
            => result = Err(ConversionError("", arg.name, "expected object"))
       /\ (data.kind = "Object" /\ ~result.ok
                /\ result.err.kind = "ConversionError")
            => result.err.key = ResolvedKey(TheField)

(***************************************************************************)
(* Derived enums                                                           *)
(***************************************************************************)
\* the string under the discriminator field of the object
TagString == EntryAt(data, arg.tag.v).v.s

\* the variants whose key name, the rename written on the variant or else
\* its identifier, is the tag
Keyed(T, tag) == {i \in 1..Len(T.variants) : ResolvedKey(T.variants[i]) = tag}

NoAttributes(f) == f.metas = <<>>

\* C21: the string under the tag field of a tagged enum selects the variant
\* whose key name (its rename, else its identifier) is that string, and the
\* variant's fields are read from the same object; a string that is no
\* variant's key name, the identifier of a renamed variant included, is a
\* ConversionError with the enum's name as type_name and a cause naming the
\* string.
C21_TagSelects ==
    (op = "from_value" /\ arg \in TaggedEnums /\ data.kind = "Object"
        /\ EntryAt(data, arg.tag.v).some
        /\ EntryAt(data, arg.tag.v).v.kind = "String")
    => IF Keyed(arg, TagString) = {}
       THEN result = Err(ConversionError(result.err.key, arg.name,
                                         "unknown variant: " \o TagString))
       ELSE \A i \in Keyed(arg, TagString) :
            /\ Cardinality(Keyed(arg, TagString)) = 1
            /\ result.ok => result.val.variant = arg.variants[i].ident
            /\ ~result.ok =>
                    ~(result.err.kind = "ConversionError"
                        /\ result.err.type_name = arg.name)
            /\ (result.ok /\ arg.variants[i].kind = "Named") =>
                    \A j \in 1..Len(arg.variants[i].fields) :
                        (NoAttributes(arg.variants[i].fields[j])
                            /\ EntryAt(data, arg.variants[i].fields[j].ident).some) =>
                            Ok(result.val.fields[j].val)
                            = FromValue(arg.variants[i].fields[j].ty,
                                  EntryAt(data, arg.variants[i].fields[j].ident).v)
            /\ (result.ok /\ arg.variants[i].kind = "Unnamed") =>
                    Ok(result.val.val) = FromValue(arg.variants[i].fields[1].ty, data)

\* Backend from {"type": "postgresql", "host": "h", "port": 1}
C21_Witness ==
    /\ op = "from_value" /\ arg = Backend
    /\ data = Tagged(String("postgresql"),
                     <<[k |-> "host", v |-> String("h")],
                       [k |-> "port", v |-> Integer(I64(1))]>>)
    /\ result = Ok([variant |-> "Postgres",
                    fields |-> <<[name |-> "host", val |-> "h"],
                                 [name |-> "port", val |-> I64(1)]>>])

\* C22: the untagged enum with variants A {a} then B {b} extracts an object
\* that holds both an "a" key and a "b" key to variant A.
C22_FirstDeclared ==
    (op \in {"from_value", "compile_error"} /\ arg = AB /\ data.kind = "Object"
        /\ EntryAt(data, "a").some /\ EntryAt(data, "b").some)
    => /\ op = "from_value"
       /\ result.ok
       /\ result.val.variant = "A"

\* whether a tuple-style or unit variant of an untagged enum matches the
\* object: its key is present and, for a tuple-style variant, the entry
\* extracts as the inner type
VariantMatches(variant, value) ==
    /\ EntryAt(value, ResolvedKey(variant)).some
    /\ variant.kind = "Unnamed" =>
            FromValue(variant.fields[1].ty, EntryAt(value, ResolvedKey(variant)).v).ok

VariantResult(variant, value) ==
    IF variant.kind = "Unit" THEN Ok([variant |-> variant.ident])
    ELSE Ok([variant |-> variant.ident,
             val |-> FromValue(variant.fields[1].ty,
                               EntryAt(value, ResolvedKey(variant)).v).val])

Matching(T, value) ==
    {i \in 1..Len(T.variants) : VariantMatches(T.variants[i], value)}

\* C23: an untagged enum returns the first variant, in declaration order,
\* that matches: a tuple-style variant when its key is present and the entry
\* extracts as the inner type (an entry that does not extract passes on to
\* the next variant), a unit variant when its key is present, whatever it
\* holds.
C23_FirstMatch ==
    (op \in {"from_value", "compile_error"} /\ arg = Setting /\ data.kind = "Object")
    => /\ op = "from_value"
       /\ Matching(arg, data) # {} =>
            result = VariantResult(arg.variants[First(Matching(arg, data))], data)
       /\ Matching(arg, data) = {} => ~result.ok

\* C24: an untagged enum given an Object that no variant matches fails with
\* the one error ConversionError {key: "", type_name: the enum's name,
\* source: "no matching variant found"}, whatever made each variant fail.
C24_NoMatch ==
    (op \in {"from_value", "compile_error"} /\ arg \in UntaggedEnums
        /\ data.kind = "Object"
        /\ \A i \in 1..Len(arg.variants) :
                ~EntryAt(data, ResolvedKey(arg.variants[i])).some
                \/ (arg.variants[i].kind = "Unnamed"
                        /\ ~VariantMatches(arg.variants[i], data)))
    => /\ op = "from_value"
       /\ result = Err(ConversionError("", arg.name, "no matching variant found"))

\* C25: a default = "literal" that the field's integer type cannot
\* represent (text that is no number, or a number outside the type's range
\* such as "70000" for u16) is reported as a failure, when the impl is built
\* or when the key is absent; the field never silently gets the type's
\* default or a wrapped or truncated number.
C25_NoSilentDefault ==
    (op \in {"from_value", "compile_error"} /\ arg \in LiteralStructs
        /\ TheField.ty.t \in IntNames
        /\ ~LiteralValue(TheField.ty, LiteralOf(TheField)).some
        /\ (op = "from_value" =>
                data.kind = "Object" /\ ~EntryAt(data, key_name(TheField)).some))
    => (op = "compile_error" \/ ~result.ok)

\* the derived struct with the field list of the variant
BodyStruct == StructOf("S", arg.variants[1].fields)

\* the variant holding what the struct's extraction gave
AsVariant(variant, r) ==
    IF r.ok THEN Ok([variant |-> variant.ident, fields |-> r.val]) ELSE r

\* C28: the body of a record-style variant of a tagged enum is extracted as
\* the derived struct with the same fields and attributes is, from the same
\* object: the same value, flatten and required honoured, and the same
\* error, a ConversionError carrying the key name of the failing field.
C28_VariantAsStruct ==
    (op \in {"from_value", "compile_error"} /\ arg \in VariantEnums
        /\ data.kind = "Object" /\ EntryAt(data, "type") = Some(String("V")))
    => /\ op = "from_value" <=> Compiles(BodyStruct)
       /\ op = "from_value" =>
            result = AsVariant(arg.variants[1], Struct_from_value(BodyStruct, data))

(***************************************************************************)
(* Iteration order                                                         *)
(***************************************************************************)
KeysOf(value) == {value.entries[i].k : i \in 1..Len(value.entries)}

\* the Objects holding the entries of value in another iteration order
Reorderings(value) ==
    {Object([i \in 1..Len(value.entries) |-> value.entries[p[i]]]) :
        p \in {q \in [1..Len(value.entries) -> 1..Len(value.entries)] :
                \A i, j \in 1..Len(value.entries) : q[i] = q[j] => i = j}}

\* equality of value trees: Objects are equal when they hold equal values
\* under the same keys
RECURSIVE SameValue(_, _)
SameValue(x, y) ==
    IF x.kind = "Object" /\ y.kind = "Object"
    THEN /\ KeysOf(x) = KeysOf(y)
         /\ \A key \in KeysOf(x) : SameValue(EntryAt(x, key).v, EntryAt(y, key).v)
    ELSE IF x.kind = "Array" /\ y.kind = "Array"
    THEN /\ Len(x.items) = Len(y.items)
         /\ \A i \in 1..Len(x.items) : SameValue(x.items[i], y.items[i])
    ELSE x = y

\* equality of the outcomes of extractions to T
SameOutcome(T, r1, r2) ==
    IF T.t = "ConfigValue" /\ r1.ok /\ r2.ok THEN SameValue(r1.val, r2.val)
    ELSE r1 = r2

\* C29: the outcome of an extraction, value or error with its key, is the
\* same for two Objects holding the same entries in different iteration
\* orders, whatever the target type, a map with two malformed entries
\* included.
C29_OrderIndependent ==
    (op = "from_value" /\ data.kind = "Object")
    => \A other \in Reorderings(data) :
            SameOutcome(arg, FromValue(arg, other), result)

(***************************************************************************)
(* LayeredSource                                                           *)
(***************************************************************************)
\* the layers that count: those after the last one that is not an Object
ActiveFrom(vals) ==
    IF \E i \in 1..Len(vals) : vals[i].kind # "Object"
    THEN 1 + (CHOOSE i \in 1..Len(vals) :
                /\ vals[i].kind # "Object"
                /\ \A j \in (i + 1)..Len(vals) : vals[j].kind = "Object")
    ELSE 1

\* what the layers from i on hold under key, in order
RECURSIVE ValuesAt(_, _, _)
ValuesAt(vals, i, key) ==
    IF i > Len(vals) THEN <<>>
    ELSE IF EntryAt(vals[i], key).some
    THEN <<EntryAt(vals[i], key).v>> \o ValuesAt(vals, i + 1, key)
    ELSE ValuesAt(vals, i + 1, key)

\* the layering of a non-empty sequence of values, the last having priority:
\* the last value itself unless it is an Object, else, key by key, the
\* layering of what the Objects since the last non-Object hold under the key
RECURSIVE Layering(_)
Layering(vals) ==
    IF vals[Len(vals)].kind # "Object" THEN vals[Len(vals)]
    ELSE [kind |-> "Layered",
          at |-> [key \in UNION {KeysOf(vals[i]) : i \in ActiveFrom(vals)..Len(vals)} |->
                    Layering(ValuesAt(vals, ActiveFrom(vals), key))]]

\* value is the tree the layering describes, whatever the order of entries
RECURSIVE IsLayering(_, _)
IsLayering(value, layering) ==
    IF layering.kind # "Layered" THEN value = layering
    ELSE /\ value.kind = "Object"
         /\ KeysOf(value) = DOMAIN layering.at
         /\ \A i, j \in 1..Len(value.entries) :
                value.entries[i].k = value.entries[j].k => i = j
         /\ \A key \in DOMAIN layering.at :
                IsLayering(EntryAt(value, key).v, layering.at[key])

LoadedValues == [i \in 1..Len(sources) |-> sources[i].loaded.val]

FailingSources == {i \in 1..Len(sources) : ~sources[i].loaded.ok}

\* C26: load and build layer the sources in the order added over an empty
\* object: under every key the last source holding it wins, Objects on both
\* sides are merged key by key so that keys of earlier sources only are
\* kept, and a scalar, an array or a kind mismatch is replaced whole by the
\* later value; the first source that fails ends the load with SourceError
\* of its name.  build gives the Config that data.
C26_LayeredMerge ==
    op \in {"load", "build"}
    => /\ IF FailingSources # {}
          THEN result = Err(SourceError(sources[First(FailingSources)].name,
                                        sources[First(FailingSources)].loaded.err))
          ELSE /\ result.ok
               /\ IsLayering(result.val, Layering(<<Object(<<>>)>> \o LoadedValues))
       /\ (op = "build" /\ result.ok) => data = result.val

\* defaults, then production: test_merge_values
C26_Witness ==
    /\ op = "load"
    /\ Len(sources) = 2
    /\ sources[1].name = "defaults" /\ sources[2].name = "production"
    /\ result.ok
    /\ EntryAt(result.val, "a") = Some(Integer(I64(10)))
    /\ EntryAt(EntryAt(result.val, "b").v, "c") = Some(Integer(I64(20)))
    /\ EntryAt(EntryAt(result.val, "b").v, "d") = Some(Integer(I64(3)))
    /\ EntryAt(result.val, "e") = Some(Integer(I64(5)))

(***************************************************************************)
(* Config::set                                                             *)
(***************************************************************************)
\* the node a path of parts leads to, if it leads to one
RECURSIVE NodeAt(_, _)
NodeAt(value, parts) ==
    IF parts = <<>> THEN Some(value)
    ELSE IF value.kind = "Object" /\ EntryAt(value, parts[1]).some
    THEN NodeAt(EntryAt(value, parts[1]).v, Tail(parts))
    ELSE None

IsPrefix(p, q) == Len(p) <= Len(q) /\ SubSeq(q, 1, Len(p)) = p

PartNames == {"a", "b", ""}

Paths == UNION {[1..n -> PartNames] : n \in 1..4}

SetParts == split(arg.key, "", <<>>)

\* C27: after set(key, v), whatever the key and the data before,
\* get_value(key) is v, every node on the way to it is an Object, every
\* path that neither leads to the key nor goes through it holds what it held
\* before, and each registered handler has been called once, with the key,
\* v and the value the key held before, or None.
C27_SetGet ==
    op = "set"
    => /\ get_value(arg.key) = Ok(arg.value)
       /\ \A n \in 0..(Len(SetParts) - 1) :
            NodeAt(data, SubSeq(SetParts, 1, n)).v.kind = "Object"
       /\ \A p \in Paths :
            (~IsPrefix(p, SetParts) /\ ~IsPrefix(SetParts, p))
            => NodeAt(data, p) = NodeAt(prev, p)
       /\ IF emitter.some
          THEN /\ Len(calls) = Len(map_get(emitter.v, "changed").v)
               /\ \A i \in 1..Len(calls) :
                    calls[i] = [handler |-> map_get(emitter.v, "changed").v[i],
                                key |-> to_string(arg.key),
                                value |-> arg.value,
                                previous |-> NodeAt(prev, SetParts)]
          ELSE calls = <<>>

\* set("a.b.a", v) on {"a": 1} with one handler registered
C27_Witness ==
    /\ op = "set"
    /\ arg.key = KeyAB \o <<".", "a">>
    /\ prev = Object(<<[k |-> "a", v |-> Integer(I64(1))]>>)
    /\ NodeAt(data, <<"a", "b", "a">>) = Some(arg.value)
    /\ emitter.some
    /\ Len(calls) = 1
    /\ calls[1].previous = None

(***************************************************************************)
(* SeqAccess                                                               *)
(***************************************************************************)
\* what the k-th next_element call on a cursor over items has to return
Delivered(items, k, T) ==
    IF k > Len(items) THEN Ok(None)
    ELSE IF FromValue(T, items[k]).ok THEN Ok(Some(FromValue(T, items[k]).val))
    ELSE FromValue(T, items[k])

\* C30: on a SeqAccess over an array of length n, position() starts at 0,
\* grows by exactly 1 on each next_element call made while position() < n,
\* also when that element fails to extract, and never exceeds n; the k-th
\* call (k <= n) extracts element k-1; every call made once position() = n
\* returns Ok(None) and changes nothing; len() and as_slice() never change.
C30_CursorProtocol ==
    /\ SeqAccess_position(seq_access)
            = IF Len(nexts) < Len(data.items) THEN Len(nexts) ELSE Len(data.items)
    /\ \A k \in 1..Len(nexts) :
            nexts[k].result = Delivered(data.items, k, nexts[k].T)
    /\ SeqAccess_as_slice(seq_access) = data.items
    /\ SeqAccess_len(seq_access) = Len(data.items)
    /\ op = "next_element"
       => /\ SeqAccess_position(prev) < SeqAccess_len(prev)
             => SeqAccess_position(seq_access) = SeqAccess_position(prev) + 1
          /\ SeqAccess_position(prev) = SeqAccess_len(prev)
             => seq_access = prev /\ result = Ok(None)

\* an element that failed to extract has been stepped over, the next one
\* has been delivered, and a call has been made at the end
C30_Witness ==
    /\ op = "next_element"
    /\ Len(data.items) = 2
    /\ Len(nexts) = 3
    /\ ~nexts[1].result.ok
    /\ nexts[2].result.ok /\ nexts[2].result.val.some
    /\ nexts[3].result = Ok(None)
    /\ SeqAccess_position(seq_access) = 2
    /\ seq_access = prev

====
